---- MODULE Spec2Model ----
(***************************************************************************)
(* Monte Carlo fund simulation engine (zmatula/Fund-Analysis-Platform).   *)
(*                                                                         *)
(* Number representation.  The program computes in IEEE doubles; the      *)
(* model computes in a small fixed-point float:                           *)
(*   - money is a whole number of dollars;                                *)
(*   - a rate (IRR, discount rate) is a whole number of 1e-4 units        *)
(*     (RateScale), so -0.9999 is -9999 and 10.0 is 100000;               *)
(*   - magnitudes saturate at MaxFloat, which plays the part of inf, and  *)
(*     inf - inf is NaN, on which every comparison is false;              *)
(*   - (1 + rate) ** years raises OverflowError when it leaves that       *)
(*     range upwards and underflows to 0.0 (the ZeroDivisionError of the  *)
(*     following division) when its reciprocal does;                      *)
(*   - years = day / 365.25 is rounded to whole years.                    *)
(* An amount of whole dollars has |x| < 1e-6 exactly when x = 0, i.e.     *)
(* when |x| < 1: the solvers' tolerance 1e-6 is one unit of the grid.     *)
(***************************************************************************)
EXTENDS Integers, Sequences, FiniteSets, TLC

(***************************************************************************)
(* State.  Three groups of variables, one for each specification:          *)
(*   SpecIrr   one call of calculate_irr_robust, strategy by strategy;     *)
(*   SpecCalc  single calls of the pure helpers;                           *)
(*   SpecSim   two consecutive calls of run_monte_carlo_simulation.        *)
(* A specification leaves the other groups at their idle values.           *)
(***************************************************************************)
VARIABLES
    irr_cash_flows,   \* calculate_irr_robust: argument cash_flows
    irr_initial,      \* argument initial_investment
    irr_stage,        \* the strategy about to run (1..8)
    irr_status,       \* "running", "returned" or "raised"
    irr_log,          \* what each strategy run so far did
    irr_result        \* the pair (irr, converged) returned

VARIABLES
    calc_op,          \* the helper called, or "idle"
    calc_args,        \* its arguments
    calc_out          \* [raised, value]: what the call did

VARIABLES
    investments,      \* the investment universe (argument of both calls)
    config,           \* the SimulationConfiguration (argument of both calls)
    calls,            \* per call: beta_index, apply_costs, use_alpha
    call,             \* number of calls of run_monte_carlo_simulation started
    phase,            \* where the running call is
    random_state,     \* the generator's state
    simulation_id,    \* loop variable i of the running call
    draw,             \* the locals of run_single_simulation
    results,          \* per call: the list of SimulationResult built so far
    outcome,          \* per call: "pending", "running", "returned" or "raised"
    progress          \* per call: whether progress_callback is given, and what
                      \* it has received and returned

irrVars == <<irr_cash_flows, irr_initial, irr_stage, irr_status, irr_log, irr_result>>
calcVars == <<calc_op, calc_args, calc_out>>
simVars == <<investments, config, calls, call, phase, random_state, simulation_id,
             draw, results, outcome, progress>>
vars == <<irrVars, calcVars, simVars>>

IrrIdle ==
    /\ irr_cash_flows = <<>> /\ irr_initial = 0 /\ irr_stage = 0
    /\ irr_status = "idle" /\ irr_log = <<>> /\ irr_result = <<>>
CalcIdle == calc_op = "idle" /\ calc_args = <<>> /\ calc_out = <<>>
SimIdle ==
    /\ investments = <<>> /\ config = <<>> /\ calls = <<>> /\ call = 0
    /\ phase = "idle" /\ random_state = 0 /\ simulation_id = 0
    /\ draw = <<>> /\ results = <<>> /\ outcome = <<>>
    /\ progress = <<>>

RateScale == 10^4
MaxFloat == 2^30
NaN == MaxFloat + 1

Sgn(x) == IF x = NaN THEN 0 ELSE IF x > 0 THEN 1 ELSE IF x < 0 THEN -1 ELSE 0
FAbs(x) == IF x = NaN THEN NaN ELSE IF x < 0 THEN -x ELSE x
FNeg(x) == IF x = NaN THEN NaN ELSE -x
Clip(x) == IF x > MaxFloat THEN MaxFloat ELSE IF x < -MaxFloat THEN -MaxFloat ELSE x
IsInf(x) == x = MaxFloat \/ x = -MaxFloat
\* a < b on floats: false when either side is NaN
FLess(a, b) == a /= NaN /\ b /= NaN /\ a < b
FAdd(a, b) ==
    IF a = NaN \/ b = NaN THEN NaN
    ELSE IF IsInf(a) /\ IsInf(b) THEN (IF a = b THEN a ELSE NaN)
    ELSE IF IsInf(a) THEN a
    ELSE IF IsInf(b) THEN b
    ELSE Clip(a + b)

\* the value of an expression, computed once:  The({ e(x) : x \in {v} })  is
\* e with x bound to the value of v
The(S) == CHOOSE r \in S : TRUE
\* a sequence with its elements evaluated
Eager(seq) == seq \o <<>>

\* largest divisor whose remainders can be multiplied by 100 in 32 bits
MaxDivisor == MaxFloat \div 50

\* a / (c / RateScale) for an exact c > 0: long division in base 100, so that
\* no intermediate product leaves the 32-bit range; a divisor beyond MaxDivisor
\* is first brought into range together with the dividend
RECURSIVE DivScaled(_, _)
DivScaled(a, c) ==
    IF a = NaN THEN NaN
    ELSE IF IsInf(a) THEN a
    ELSE IF c > MaxDivisor THEN Sgn(a) * DivScaled(FAbs(a) \div 64, c \div 64)
    ELSE LET A == FAbs(a)
             q0 == A \div c
             t == (A % c) * 100
             q1 == t \div c
             r1 == t % c
         IN IF q0 > MaxFloat \div RateScale THEN Sgn(a) * MaxFloat
            ELSE Sgn(a) * Clip(q0 * RateScale + q1 * 100 + (r1 * 100) \div c)

\* n / d as a rate, d /= 0
FDivRate(n, d) ==
    IF n = NaN \/ d = NaN THEN NaN
    ELSE IF IsInf(n) /\ IsInf(d) THEN NaN
    ELSE IF IsInf(d) THEN 0
    ELSE IF IsInf(n) THEN Sgn(n) * Sgn(d) * MaxFloat
    ELSE Sgn(d) * DivScaled(n, FAbs(d))

\* years = day / 365.25, to the nearest whole year
Years(day) == (8 * day + 1461) \div 2922

\* amount / (1 + rate) ** years
RECURSIVE Discount(_, _, _)
Discount(amount, rate, years) ==
    IF years = 0 THEN amount
    ELSE The({ DivScaled(d, RateScale + rate) :
               d \in { Discount(amount, rate, years - 1) } })

\* (1 + rate) ** years for 1 + rate > 1, at RateScale, MaxFloat on overflow
RECURSIVE Power(_, _)
Power(g, years) ==
    IF years = 0 THEN RateScale
    ELSE The({ IF p >= MaxFloat THEN MaxFloat
               ELSE Clip((p \div RateScale) * g + ((p % RateScale) * g) \div RateScale) :
               p \in { Power(g, years - 1) } })

\* what evaluating  cash_flow / (1 + rate) ** years  raises
PowError(rate, years) ==
    IF rate > 0 /\ Power(RateScale + rate, years) >= MaxFloat THEN "OverflowError"
    ELSE IF rate < 0 /\ Discount(1, rate, years) >= MaxFloat THEN "ZeroDivisionError"
    ELSE "none"

(***************************************************************************)
(* calculators.py: IRR solvers.  A cash-flow schedule (a dict day ->       *)
(* amount, iterated in insertion order) is a sequence of records           *)
(* [day, amount] with distinct days.  A call that can raise returns a      *)
(* record whose field raised names the exception ("none": it returned).    *)
(***************************************************************************)
InitialGuess == 1000
LowerRate == -9999
UpperRate == 100000
MaxIterations == 100
Tolerance == 1
VerifyTolerance == 1000
RetryGuesses == <<-5000, 0, 5000, 10000, 20000>>
FloorLostEverything == -9999
FloorSignificantLoss == -7500
FloorBreakEven == 0

\* max(-0.9999, min(rate, 10.0)); Python's min and max keep their first
\* argument when the comparison with NaN is false, so NaN becomes -0.9999
BoundRate(rate) ==
    IF rate = NaN THEN LowerRate
    ELSE IF rate > UpperRate THEN UpperRate
    ELSE IF rate < LowerRate THEN LowerRate
    ELSE rate

RECURSIVE NpvSum(_, _, _, _)
NpvSum(rate, cash_flows, i, npv) ==
    IF i > Len(cash_flows) THEN [raised |-> "none", npv |-> npv]
    ELSE LET years == Years(cash_flows[i].day)
         IN IF PowError(rate, years) /= "none"
            THEN [raised |-> PowError(rate, years), npv |-> npv]
            ELSE The({ NpvSum(rate, cash_flows, i + 1, n) :
                       n \in { FAdd(npv, Discount(cash_flows[i].amount, rate, years)) } })

verify_npv(rate, cash_flows, initial_investment) ==
    NpvSum(rate, cash_flows, 1, FNeg(initial_investment))

\* the inner loop of the Newton iteration: NPV and its derivative at rate
RECURSIVE NewtonTerms(_, _, _, _, _)
NewtonTerms(rate, cash_flows, i, npv, dnpv) ==
    IF i > Len(cash_flows) THEN [raised |-> "none", npv |-> npv, dnpv |-> dnpv]
    ELSE LET years == Years(cash_flows[i].day)
         IN IF PowError(rate, years) /= "none"
            THEN [raised |-> PowError(rate, years), npv |-> npv, dnpv |-> dnpv]
            ELSE The({ NewtonTerms(rate, cash_flows, i + 1, n, d) :
                       n \in { FAdd(npv, Discount(cash_flows[i].amount, rate, years)) },
                       d \in { FAdd(dnpv, FNeg(Discount(years * cash_flows[i].amount,
                                                        rate, years + 1))) } })

\* a Newton step whose convergence check uses the verification tolerance
NewtonStepCoarse(cash_flows, initial_investment, s, tolerance) ==
    IF s.status /= "loop" THEN s
    ELSE The({ IF t.raised /= "none"
               THEN [s EXCEPT !.status = "raised", !.raised = t.raised]
               ELSE IF FLess(FAbs(t.npv), VerifyTolerance)
               THEN [s EXCEPT !.status = "returned", !.by_tolerance = TRUE]
               ELSE IF t.dnpv = 0
               THEN [s EXCEPT !.status = "break"]
               ELSE [s EXCEPT !.rate =
                         BoundRate(FAdd(s.rate, FNeg(FDivRate(t.npv, t.dnpv))))] :
               t \in { NewtonTerms(s.rate, cash_flows, 1, FNeg(initial_investment), 0) } })

\* one iteration of the Newton-Raphson loop on the loop state s; a loop that
\* has returned or raised stays as it is
NewtonStep(cash_flows, initial_investment, s, tolerance) ==
    IF s.status /= "loop" THEN s
    ELSE The({ IF t.raised /= "none"
               THEN [s EXCEPT !.status = "raised", !.raised = t.raised]
               ELSE IF FLess(FAbs(t.npv), tolerance)
               THEN [s EXCEPT !.status = "returned", !.by_tolerance = TRUE]
               ELSE IF t.dnpv = 0
               THEN [s EXCEPT !.status = "break"]
               ELSE [s EXCEPT !.rate =
                         BoundRate(FAdd(s.rate, FNeg(FDivRate(t.npv, t.dnpv))))] :
               t \in { NewtonTerms(s.rate, cash_flows, 1, FNeg(initial_investment), 0) } })

\* n iterations: the first half, then the rest from the state it leaves
RECURSIVE NewtonIterate(_, _, _, _, _)
NewtonIterate(cash_flows, initial_investment, s, n, tolerance) ==
    IF n = 0 THEN s
    ELSE IF n = 1 THEN NewtonStep(cash_flows, initial_investment, s, tolerance)
    ELSE The({ NewtonIterate(cash_flows, initial_investment, h, n - n \div 2, tolerance) :
               h \in { NewtonIterate(cash_flows, initial_investment, s, n \div 2,
                                     tolerance) } })

\* the Newton-Raphson loop from a given rate; by_tolerance: the rate was
\* returned by the convergence check, otherwise it is the best estimate
NewtonLoop(cash_flows, initial_investment, guess, max_iterations, tolerance) ==
    The({ [raised |-> s.raised, rate |-> s.rate, by_tolerance |-> s.by_tolerance] :
          s \in { NewtonIterate(cash_flows, initial_investment,
                                [status |-> "loop", rate |-> guess, raised |-> "none",
                                 by_tolerance |-> FALSE],
                                max_iterations, tolerance) } })

calculate_irr(cash_flows, initial_investment, max_iterations, tolerance) ==
    NewtonLoop(cash_flows, initial_investment, InitialGuess, max_iterations, tolerance)

\* total_returned / total_invested, in units of 1e-4
calculate_moic(total_returned, total_invested) ==
    IF total_invested <= 0 THEN 0 ELSE DivScaled(total_returned, total_invested)

\* (lower + upper) / 2.0
Half(x) == Sgn(x) * (FAbs(x) \div 2)

\* the bracket before the first iteration, or the early return
BisectionStart(cash_flows, initial_investment) ==
    LET b == [status |-> "loop", how |-> "", raised |-> "none", rate |-> 0,
              lower |-> LowerRate, upper |-> UpperRate, npv_lower |-> 0, npv_upper |-> 0]
    IN The({ IF nl.raised /= "none"
             THEN [b EXCEPT !.status = "raised", !.raised = nl.raised]
             ELSE The({ IF nu.raised /= "none"
                        THEN [b EXCEPT !.status = "raised", !.raised = nu.raised,
                                       !.npv_lower = nl.npv]
                        ELSE IF Sgn(nl.npv) * Sgn(nu.npv) > 0
                        THEN [b EXCEPT !.status = "returned", !.how = "bound",
                                       !.npv_lower = nl.npv, !.npv_upper = nu.npv,
                                       !.rate = IF FLess(FAbs(nl.npv), FAbs(nu.npv))
                                                THEN LowerRate ELSE UpperRate]
                        ELSE [b EXCEPT !.npv_lower = nl.npv, !.npv_upper = nu.npv] :
                        nu \in { verify_npv(UpperRate, cash_flows, initial_investment) } }) :
             nl \in { verify_npv(LowerRate, cash_flows, initial_investment) } })

\* one iteration of the bisection loop on the bracket b; a call that has
\* returned or raised stays as it is
BisectionStep(cash_flows, initial_investment, b, tolerance) ==
    IF b.status /= "loop" THEN b
    ELSE LET mid == Half(b.lower + b.upper)
         IN The({ IF nm.raised /= "none"
                  THEN [b EXCEPT !.status = "raised", !.raised = nm.raised]
                  ELSE IF FLess(FAbs(nm.npv), tolerance)
                  THEN [b EXCEPT !.status = "returned", !.how = "tolerance", !.rate = mid]
                  ELSE IF Sgn(nm.npv) * Sgn(b.npv_lower) < 0
                  THEN [b EXCEPT !.upper = mid, !.npv_upper = nm.npv]
                  ELSE [b EXCEPT !.lower = mid, !.npv_lower = nm.npv] :
                  nm \in { verify_npv(mid, cash_flows, initial_investment) } })

\* n iterations: the first half, then the rest from the bracket it leaves
RECURSIVE BisectionIterate(_, _, _, _, _)
BisectionIterate(cash_flows, initial_investment, b, n, tolerance) ==
    IF n = 0 THEN b
    ELSE IF n = 1 THEN BisectionStep(cash_flows, initial_investment, b, tolerance)
    ELSE The({ BisectionIterate(cash_flows, initial_investment, h, n - n \div 2,
                                tolerance) :
               h \in { BisectionIterate(cash_flows, initial_investment, b, n \div 2,
                                        tolerance) } })

calculate_irr_bisection(cash_flows, initial_investment, max_iterations, tolerance) ==
    The({ IF b.status = "loop"
          THEN [b EXCEPT !.status = "returned", !.how = "iterations",
                         !.rate = Half(b.lower + b.upper)]
          ELSE b :
          b \in { The({ BisectionIterate(cash_flows, initial_investment, b0,
                                         max_iterations, tolerance) :
                        b0 \in { BisectionStart(cash_flows, initial_investment) } }) } })

(***************************************************************************)
(* calculate_irr_robust: the fallback chain.  Its strategies are numbered  *)
(* in program order: 1 Newton from 0.10, 2..6 Newton from the retry        *)
(* guesses, 7 bisection, 8 heuristic floor.  A strategy's outcome is       *)
(* "accepted" (its return statement ran), "rejected" (it fell through),    *)
(* "caught" (it raised and the handler swallowed it) or "propagated".      *)
(***************************************************************************)
StageKind(k) ==
    IF k = 1 THEN "newton"
    ELSE IF k <= 1 + Len(RetryGuesses) THEN "retry"
    ELSE IF k = 2 + Len(RetryGuesses) THEN "bisection"
    ELSE "floor"

StageGuess(k) == IF k = 1 THEN InitialGuess
                 ELSE IF StageKind(k) = "retry" THEN RetryGuesses[k - 1]
                 ELSE 0

\* a handler that catches ValueError only
ExceptValueError(err) == IF err = "ValueError" THEN "caught" ELSE "propagated"

\* the bare  except:  of the three try blocks
ExceptAll(err) == "caught"

StageRaised(k, err) ==
    [stage |-> StageKind(k), guess |-> StageGuess(k), outcome |-> ExceptAll(err),
     rate |-> 0, how |-> "raise", raised |-> err]

StageReturned(k, accepted, rate, how) ==
    [stage |-> StageKind(k), guess |-> StageGuess(k),
     outcome |-> IF accepted THEN "accepted" ELSE "rejected",
     rate |-> rate, how |-> how, raised |-> "none"]

\* a strategy whose result is returned without the re-evaluation
AcceptUnverified(k, rate, how, cash_flows, initial_investment) ==
    StageReturned(k, TRUE, rate, how)

\* rate passes  abs(verify_npv(rate, ...)) < 1000
Verified(k, rate, how, cash_flows, initial_investment) ==
    The({ IF v.raised /= "none" THEN StageRaised(k, v.raised)
          ELSE StageReturned(k, FLess(FAbs(v.npv), VerifyTolerance), rate, how) :
          v \in { verify_npv(rate, cash_flows, initial_investment) } })

TryNewtonDefault(cash_flows, initial_investment) ==
    The({ IF r.raised /= "none" THEN StageRaised(1, r.raised)
          ELSE Verified(1, r.rate, IF r.by_tolerance THEN "tolerance" ELSE "best_estimate",
                        cash_flows, initial_investment) :
          r \in { calculate_irr(cash_flows, initial_investment, MaxIterations,
                                Tolerance) } })

\* one pass of  for initial_guess in [-0.5, 0.0, 0.5, 1.0, 2.0]
TryNewtonGuess(k, cash_flows, initial_investment) ==
    The({ IF first.raised /= "none" THEN StageRaised(k, first.raised)
          ELSE The({ IF manual.raised /= "none" THEN StageRaised(k, manual.raised)
                     ELSE IF manual.by_tolerance
                     THEN Verified(k, manual.rate, "tolerance", cash_flows,
                                   initial_investment)
                     ELSE StageReturned(k, FALSE, manual.rate, "best_estimate") :
                     manual \in { NewtonLoop(cash_flows, initial_investment,
                                             StageGuess(k), MaxIterations, Tolerance) } }) :
          first \in { calculate_irr(cash_flows, initial_investment, MaxIterations,
                                    Tolerance) } })

TryBisection(k, cash_flows, initial_investment) ==
    The({ IF b.status = "raised" THEN StageRaised(k, b.raised)
          ELSE Verified(k, b.rate, b.how, cash_flows, initial_investment) :
          b \in { calculate_irr_bisection(cash_flows, initial_investment, MaxIterations,
                                          Tolerance) } })

RECURSIVE SumAmounts(_, _)
SumAmounts(cash_flows, i) ==
    IF i = 0 THEN 0
    ELSE The({ FAdd(t, cash_flows[i].amount) : t \in { SumAmounts(cash_flows, i - 1) } })

\* a floor that reports break-even whatever the total
BreakEvenFloor(k, cash_flows, initial_investment) ==
    StageReturned(k, TRUE, FloorBreakEven, "floor")

HeuristicFloor(k, cash_flows, initial_investment) ==
    The({ StageReturned(k, TRUE,
              IF FLess(total_cash_flows, 0) THEN FloorLostEverything
              ELSE IF FLess(total_cash_flows, (initial_investment + 1) \div 2)
              THEN FloorSignificantLoss
              ELSE FloorBreakEven,
              "floor") :
          total_cash_flows \in { SumAmounts(cash_flows, Len(cash_flows)) } })

RobustStage(k, cash_flows, initial_investment) ==
    IF StageKind(k) = "newton" THEN TryNewtonDefault(cash_flows, initial_investment)
    ELSE IF StageKind(k) = "retry" THEN TryNewtonGuess(k, cash_flows, initial_investment)
    ELSE IF StageKind(k) = "bisection" THEN TryBisection(k, cash_flows, initial_investment)
    ELSE HeuristicFloor(k, cash_flows, initial_investment)

\* the chain from strategy k on
RECURSIVE RobustFrom(_, _, _)
RobustFrom(k, cash_flows, initial_investment) ==
    The({ IF o.outcome = "accepted"
          THEN [raised |-> "none", rate |-> o.rate, converged |-> StageKind(k) /= "floor",
                stage |-> k]
          ELSE IF o.outcome = "propagated"
          THEN [raised |-> o.raised, rate |-> 0, converged |-> FALSE, stage |-> k]
          ELSE RobustFrom(k + 1, cash_flows, initial_investment) :
          o \in { RobustStage(k, cash_flows, initial_investment) } })

calculate_irr_robust(cash_flows, initial_investment) ==
    RobustFrom(1, cash_flows, initial_investment)

(***************************************************************************)
(* SpecIrr: one call of calculate_irr_robust, one strategy per step.       *)
(***************************************************************************)
CF(day, amount) == [day |-> day, amount |-> amount]

\* the schedules and initial investments calculate_irr_robust is called with
IrrSchedules ==
    { <<CF(365, 1100)>>, <<CF(365, 6000)>>, <<CF(365, 1000)>>, <<CF(365, 500)>>,
      <<CF(365, 0)>>, <<CF(730, 50)>>, <<CF(730, -1000)>>, <<CF(1826, -3000)>>,
      <<CF(1826, 2000)>>,
      <<CF(365, 500), CF(730, -2000)>>, <<CF(365, 2000), CF(730, -2000)>>,
      <<CF(365, 30000), CF(730, -1000)>>, <<CF(365, -3000), CF(1096, 2000)>>,
      <<CF(1, 6000), CF(730, -1000)>> }
IrrInitials == {0, 500, 1000, 2000, 3000}

IrrInit ==
    /\ irr_cash_flows \in IrrSchedules
    /\ irr_initial \in IrrInitials
    /\ irr_stage = 1
    /\ irr_status = "running"
    /\ irr_log = <<>>
    /\ irr_result = [rate |-> 0, converged |-> FALSE]
    /\ CalcIdle /\ SimIdle

\* one strategy of the chain runs, and the function returns, raises or
\* goes on to the next strategy
Attempt(kind) ==
    \E o \in { RobustStage(irr_stage, irr_cash_flows, irr_initial) } :
       /\ irr_log' = Append(irr_log, o)
       /\ irr_status' = IF o.outcome = "accepted" THEN "returned"
                        ELSE IF o.outcome = "propagated" THEN "raised"
                        ELSE "running"
       /\ irr_result' = IF o.outcome = "accepted"
                        THEN [rate |-> o.rate, converged |-> kind /= "floor"]
                        ELSE irr_result
       /\ irr_stage' = irr_stage + 1
       /\ UNCHANGED <<irr_cash_flows, irr_initial, calcVars, simVars>>

AttemptNewton ==
    /\ irr_status = "running" /\ StageKind(irr_stage) = "newton"
    /\ Attempt("newton")

AttemptRetry ==
    /\ irr_status = "running" /\ StageKind(irr_stage) = "retry"
    /\ Attempt("retry")

AttemptBisection ==
    /\ irr_status = "running" /\ StageKind(irr_stage) = "bisection"
    /\ Attempt("bisection")

AttemptFloor ==
    /\ irr_status = "running" /\ StageKind(irr_stage) = "floor"
    /\ Attempt("floor")

IrrNext == AttemptNewton \/ AttemptRetry \/ AttemptBisection \/ AttemptFloor

SpecIrr == IrrInit /\ [][IrrNext]_vars

\* NPV of the schedule under solution at rate, and |NPV| < tol
NpvAt(rate) == verify_npv(rate, irr_cash_flows, irr_initial)
NpvWithin(rate, tol) ==
    \E v \in { NpvAt(rate) } : v.raised = "none" /\ FLess(FAbs(v.npv), tol)

\* C2: calculate_irr_robust always returns: an exception raised inside the
\* Newton, a retried-Newton or the bisection strategy is caught and the chain
\* goes on with the next strategy; the heuristic floor never raises, and it
\* ends the chain at the latest.
C2_NeverThrows ==
    /\ irr_status \in {"running", "returned"}
    /\ irr_stage = Len(irr_log) + 1
    /\ (irr_status = "running") => Len(irr_log) < Len(RetryGuesses) + 3
    /\ \A i \in DOMAIN irr_log :
          /\ irr_log[i].outcome \in {"accepted", "rejected", "caught"}
          /\ irr_log[i].raised /= "none"
                => /\ irr_log[i].outcome = "caught"
                   /\ irr_log[i].stage \in {"newton", "retry", "bisection"}
                   /\ i < Len(irr_log) \/ irr_status = "running"

\* each of the three guarded strategies raised, and the call still returned
C2_Witness ==
    /\ irr_status = "returned"
    /\ \A kind \in {"newton", "retry", "bisection"} :
          \E i \in DOMAIN irr_log :
             irr_log[i].stage = kind /\ irr_log[i].outcome = "caught"

\* the strategies in program order, with the rate each Newton run starts from
StrategyOrder ==
    << <<"newton", 1000>>, <<"retry", -5000>>, <<"retry", 0>>, <<"retry", 5000>>,
       <<"retry", 10000>>, <<"retry", 20000>>, <<"bisection", 0>>, <<"floor", 0>> >>

\* the strategies run in program order up to the first accepted one, whose
\* rate is returned; converged is False exactly for the heuristic floor
ChainInOrder ==
    /\ Len(irr_log) <= Len(StrategyOrder)
    /\ \A i \in DOMAIN irr_log :
          /\ <<irr_log[i].stage, irr_log[i].guess>> = StrategyOrder[i]
          /\ i < Len(irr_log) => irr_log[i].outcome /= "accepted"
    /\ irr_status = "returned"
          => /\ irr_log[Len(irr_log)].outcome = "accepted"
             /\ irr_result.rate = irr_log[Len(irr_log)].rate
             /\ irr_result.converged = (irr_log[Len(irr_log)].stage /= "floor")
    /\ irr_status = "running" /\ irr_log /= <<>>
          => irr_log[Len(irr_log)].outcome /= "accepted"

\* C3 as stated: the strategies run in the fixed order and a strategy's
\* result is accepted exactly when it passes |NPV| < 1000 on re-evaluation,
\* so that the value returned is the first result in order passing it.
C3_Original ==
    /\ ChainInOrder
    /\ \A i \in DOMAIN irr_log :
          (irr_log[i].stage /= "floor" /\ irr_log[i].raised = "none")
             => (irr_log[i].outcome = "accepted"
                    <=> NpvWithin(irr_log[i].rate, VerifyTolerance))

\* C3 amended: the strategies run in the fixed order; Newton from 0.10 and
\* bisection are accepted exactly when their result passes |NPV| < 1000 on
\* re-evaluation; a retried Newton is accepted only when, in addition, its own
\* loop ended on the 1e-6 convergence check (a best estimate is rejected
\* whatever its NPV); a strategy that raised is passed over.
C3_OrderAndAcceptance ==
    /\ ChainInOrder
    /\ \A i \in DOMAIN irr_log :
          IF irr_log[i].stage = "floor" THEN irr_log[i].outcome = "accepted"
          ELSE IF irr_log[i].raised /= "none" THEN irr_log[i].outcome = "caught"
          ELSE irr_log[i].outcome = "accepted"
                  <=> /\ NpvWithin(irr_log[i].rate, VerifyTolerance)
                      /\ irr_log[i].stage = "retry" => irr_log[i].how = "tolerance"

\* a retried Newton whose best estimate passes |NPV| < 1000 was rejected, and
\* a later strategy produced the value returned
C3_Witness ==
    /\ irr_status = "returned"
    /\ \E i \in DOMAIN irr_log :
          /\ irr_log[i].stage = "retry"
          /\ irr_log[i].outcome = "rejected"
          /\ irr_log[i].how = "best_estimate"
          /\ NpvWithin(irr_log[i].rate, VerifyTolerance)

\* C5 as stated: every rate calculate_irr_robust returns with converged=True
\* has |NPV| < 1e-6, as has every rate the Newton loop or the bisection
\* returns from its tolerance check.
C5_Original ==
    /\ \A i \in DOMAIN irr_log :
          irr_log[i].how = "tolerance" => NpvWithin(irr_log[i].rate, Tolerance)
    /\ irr_status = "returned" /\ irr_result.converged
          => NpvWithin(irr_result.rate, Tolerance)

\* C5 amended: a rate the Newton loop or the bisection returns from its
\* tolerance check has |NPV| < 1e-6; a rate calculate_irr_robust returns with
\* converged=True has |NPV| < 1000 (the verification tolerance), not 1e-6.
C5_ConvergedNpv ==
    /\ \A i \in DOMAIN irr_log :
          irr_log[i].how = "tolerance" => NpvWithin(irr_log[i].rate, Tolerance)
    /\ irr_status = "returned" /\ irr_result.converged
          => NpvWithin(irr_result.rate, VerifyTolerance)

\* calculate_irr_robust returned converged=True with 1e-6 <= |NPV| < 1000
C5_Witness ==
    /\ irr_status = "returned" /\ irr_result.converged
    /\ NpvWithin(irr_result.rate, VerifyTolerance)
    /\ ~NpvWithin(irr_result.rate, Tolerance)

(***************************************************************************)
(* calculators.py: calculate_holding_period.  moic is in units of 1e-4     *)
(* like a rate; math.log is tabulated, in units of 1e-4, on the arguments  *)
(* the model uses.                                                         *)
(***************************************************************************)
DefaultDays == 365
DaysPerYear == 365
LnTable ==
    (1 :> -92103) @@ (5000 :> -6931) @@ (8000 :> -2231) @@ (10000 :> 0) @@
    (11000 :> 953) @@ (12000 :> 1823) @@ (15000 :> 4055) @@ (20000 :> 6931) @@
    (30000 :> 10986) @@ (40000 :> 13863)

\* math.log(x): [raised, value]
Log(x) ==
    IF x = NaN THEN [raised |-> "none", value |-> NaN]
    ELSE IF x <= 0 THEN [raised |-> "ValueError", value |-> 0]
    ELSE IF x = MaxFloat THEN [raised |-> "none", value |-> MaxFloat]
    ELSE [raised |-> "none", value |-> LnTable[x]]

\* n / d (d > 0) rounded to the nearest integer, ties to the even one
RoundHalfEven(n, d) ==
    LET q == n \div d
        r == n % d
    IN IF 2 * r < d THEN q
       ELSE IF 2 * r > d THEN q + 1
       ELSE IF q % 2 = 0 THEN q ELSE q + 1

\* round(x) of a float x = n / d: [raised, value]
Round(n, d) ==
    IF n = NaN THEN [raised |-> "ValueError", value |-> 0]
    ELSE IF IsInf(n) THEN [raised |-> "OverflowError", value |-> 0]
    ELSE [raised |-> "none", value |-> RoundHalfEven(n, d)]

\* except (ValueError, ZeroDivisionError)
ExceptValueOrZeroDivision(err) ==
    IF err \in {"ValueError", "ZeroDivisionError"} THEN "caught" ELSE "propagated"

\* the try block of calculate_holding_period: [raised, value]
HoldingPeriodFormula(moic, irr) ==
    LET lm == Log(moic)
        li == Log(FAdd(RateScale, irr))
        num == IF lm.value = NaN \/ li.value = NaN THEN NaN
               ELSE IF IsInf(li.value) THEN (IF IsInf(lm.value) THEN NaN ELSE 0)
               ELSE IF IsInf(lm.value) THEN Sgn(li.value) * lm.value
               ELSE Sgn(li.value) * DaysPerYear * lm.value
        days == Round(num, FAbs(li.value))
    IN IF lm.raised /= "none" THEN lm
       ELSE IF li.raised /= "none" THEN li
       ELSE IF li.value = 0 THEN [raised |-> "ZeroDivisionError", value |-> 0]
       ELSE IF days.raised /= "none" THEN days
       ELSE [raised |-> "none", value |-> IF days.value < 1 THEN 1 ELSE days.value]

\* calculate_holding_period(moic, irr): [raised, value]
calculate_holding_period(moic, irr) ==
    IF FLess(moic, 0) \/ moic = 0 THEN [raised |-> "none", value |-> DefaultDays]
    ELSE LET f == HoldingPeriodFormula(moic, IF irr = -RateScale THEN LowerRate ELSE irr)
         IN IF f.raised = "none" THEN f
            ELSE IF ExceptValueOrZeroDivision(f.raised) = "caught"
            THEN [raised |-> "none", value |-> DefaultDays]
            ELSE f

(***************************************************************************)
(* numpy.random.RandomState: a generator is its state, a number below      *)
(* RandomModulus; every draw advances it.  A draw returns the value        *)
(* together with the generator's new state.                                *)
(***************************************************************************)
Seed == 42
RandomModulus == 65537
RandomMultiplier == 75
RandomIncrement == 74

\* a generator that goes on from the state the previous call left
SharedRandomState(seed) == random_state

\* np.random.RandomState(seed=seed)
RandomState(seed) == seed % RandomModulus

NextRandom(state) == (state * RandomMultiplier + RandomIncrement) % RandomModulus

\* the standard normal deviate drawn in state: a whole number of half units
\* from -1.5 to 1.5
Gauss(state) == ((NextRandom(state) \div 7) % 7) - 3

\* random_state.normal(loc, scale): [raised, twice, state], twice the value
\* drawn; a negative scale is rejected with ValueError("scale < 0")
Normal(loc, scale, state) ==
    IF scale < 0 THEN [raised |-> "ValueError", twice |-> 0, state |-> state]
    ELSE [raised |-> "none", twice |-> 2 * loc + scale * Gauss(state),
          state |-> NextRandom(state)]

\* random_state.choice(n, size=count, replace=True): [value, state], value the
\* sequence of count indices in 1..n drawn one after the other
RECURSIVE Choice(_, _, _)
Choice(n, count, state) ==
    IF count = 0 THEN [value |-> <<>>, state |-> state]
    ELSE The({ [value |-> <<((NextRandom(state) \div 11) % n) + 1>> \o c.value,
                state |-> c.state] :
               c \in { Choice(n, count - 1, NextRandom(state)) } })

\* generate_portfolio_size: [raised, value, state]
generate_portfolio_size(mean, std_dev, max_investments, state) ==
    The({ IF size.raised /= "none"
          THEN [raised |-> size.raised, value |-> 0, state |-> size.state]
          ELSE LET rounded == RoundHalfEven(size.twice, 2)
                   floored == IF rounded < 1 THEN 1 ELSE rounded
               IN [raised |-> "none",
                   value |-> IF max_investments * 2 < floored
                             THEN max_investments * 2 ELSE floored,
                   state |-> size.state] :
          size \in { Normal(mean, std_dev, state) } })

\* select_investments: [value, state], value the selected investments
select_investments(invs, count, state) ==
    The({ [value |-> [k \in 1..count |-> invs[c.value[k]]], state |-> c.state] :
          c \in { Choice(Len(invs), count, state) } })

(***************************************************************************)
(* SpecCalc: single calls of calculate_holding_period and of               *)
(* generate_portfolio_size, on arguments from the sets below.              *)
(***************************************************************************)
MaxUniverseSize == 3
MaxGeneratorState == 13
CalcMoics == {-10000, 0, 5000, 10000, 12000, 15000, 20000, 30000, MaxFloat, NaN}
CalcIrrs == {-20000, -10000, -5000, 0, 1000, 2000, 5000, 10000, MaxFloat, NaN}
CalcMeans == {1, 2, 5}
CalcStdDevs == {-1, 0, 1, 3}

CalcInit == CalcIdle /\ IrrIdle /\ SimIdle

CallHoldingPeriod ==
    /\ calc_op = "idle"
    /\ \E moic \in CalcMoics, irr \in CalcIrrs :
          /\ calc_op' = "calculate_holding_period"
          /\ calc_args' = [moic |-> moic, irr |-> irr]
          /\ calc_out' = calculate_holding_period(moic, irr)
    /\ UNCHANGED <<irrVars, simVars>>

CallPortfolioSize ==
    /\ calc_op = "idle"
    /\ \E mean \in CalcMeans, std_dev \in CalcStdDevs,
          max_investments \in 0..MaxUniverseSize, state \in 0..MaxGeneratorState :
          /\ calc_op' = "generate_portfolio_size"
          /\ calc_args' = [mean |-> mean, std_dev |-> std_dev,
                           max_investments |-> max_investments, state |-> state]
          /\ calc_out' = generate_portfolio_size(mean, std_dev, max_investments, state)
    /\ UNCHANGED <<irrVars, simVars>>

\* the caller takes the result (or the exception)
CalcReturn ==
    /\ calc_op /= "idle"
    /\ calc_op' = "idle" /\ calc_args' = <<>> /\ calc_out' = <<>>
    /\ UNCHANGED <<irrVars, simVars>>

CalcNext == CallHoldingPeriod \/ CallPortfolioSize \/ CalcReturn

SpecCalc == CalcInit /\ [][CalcNext]_vars

\* C6: generate_portfolio_size returns an integer in [1, 2 x |universe|] for
\* every mean, every standard deviation (zero and negative included) and every
\* universe size, and never raises.
C6_SizeInBounds ==
    calc_op = "generate_portfolio_size"
       => /\ calc_out.raised = "none"
          /\ 1 <= calc_out.value
          /\ calc_out.value <= 2 * calc_args.max_investments

\* C7: calculate_holding_period never raises and returns an integer >= 1; it
\* returns 365 when moic <= 0 and when irr = 0 (ln(1 + irr) = 0), and treats
\* irr = -1 as -0.9999.
C7_HoldingPeriodTotal ==
    calc_op = "calculate_holding_period"
       => /\ calc_out.raised = "none"
          /\ calc_out.value >= 1
          /\ (FLess(calc_args.moic, 0) \/ calc_args.moic = 0) => calc_out.value = DefaultDays
          /\ calc_args.irr = 0 => calc_out.value = DefaultDays
          /\ calc_args.irr = -RateScale
                => calc_out = calculate_holding_period(calc_args.moic, LowerRate)

(***************************************************************************)
(* simulation.py: run_single_simulation, step by step.  An investment is a *)
(* record [investment_name, moic, irr, entry_date, latest_date] (dates are *)
(* day numbers); a beta index is None or the range min_date..max_date of   *)
(* its period midpoints.                                                   *)
(***************************************************************************)
InvestmentAmount == 1000000
DefaultMaxDay == 365
\* beta_index=None, and an index whose period midpoints span min_date..max_date
None == [given |-> FALSE, min_date |-> 0, max_date |-> 0]
BetaPriceIndex(min_date, max_date) ==
    [given |-> TRUE, min_date |-> min_date, max_date |-> max_date]

\* amount * rate for a rate in units of 1e-4, rounded towards zero
MulRate(amount, rate) ==
    LET a == FAbs(amount)
        r == FAbs(rate)
    IN Sgn(amount) * Sgn(rate)
          * ((a \div RateScale) * r + ((a % RateScale) * r) \div RateScale)

\* <<q, r>> with a * b = q * c + r and 0 <= r < c, for a, b >= 0 and c > 0
RECURSIVE MulDivMod(_, _, _)
MulDivMod(a, b, c) ==
    IF b = 0 THEN <<0, 0>>
    ELSE The({ LET r2 == 2 * h[2] + (b % 2) * (a % c)
               IN <<2 * h[1] + (b % 2) * (a \div c) + r2 \div c, r2 % c>> :
               h \in { MulDivMod(a, b \div 2, c) } })

\* cf * (net_returned / gross_returned), rounded towards zero
ScaleAmount(cf, net_returned, gross_returned) ==
    Sgn(cf) * Sgn(net_returned) * MulDivMod(FAbs(cf), FAbs(net_returned), gross_returned)[1]

\* max_day / 365.25, in units of 1e-4 years
YearsHeld(max_day) == (max_day * 40000) \div 1461

\* calculate_beta_return: raises ValueError when a date is outside the
\* index's range or the exit is not after the entry
calculate_beta_return(index, entry_date, exit_date) ==
    IF \/ entry_date < index.min_date \/ entry_date > index.max_date
       \/ exit_date < index.min_date \/ exit_date > index.max_date
       \/ exit_date <= entry_date
    THEN [raised |-> "ValueError"]
    ELSE [raised |-> "none"]

\* cash_flows[days_held] += exit_amount, or a new entry at the end
Post(cash_flows, days_held, exit_amount) ==
    IF \E k \in DOMAIN cash_flows : cash_flows[k].day = days_held
    THEN [k \in DOMAIN cash_flows |->
             IF cash_flows[k].day = days_held
             THEN [cash_flows[k] EXCEPT !.amount = @ + exit_amount]
             ELSE cash_flows[k]]
    ELSE Append(cash_flows, [day |-> days_held, amount |-> exit_amount])

RECURSIVE SumValues(_, _)
SumValues(cash_flows, i) ==
    IF i = 0 THEN 0 ELSE SumValues(cash_flows, i - 1) + cash_flows[i].amount

RECURSIVE MaxKey(_, _)
MaxKey(cash_flows, i) ==
    IF i = 0 THEN 0
    ELSE The({ IF cash_flows[i].day > m THEN cash_flows[i].day ELSE m :
               m \in { MaxKey(cash_flows, i - 1) } })

\* Step 3 for the k-th selected investment and the ones after it; b holds the
\* loop's variables (posted: the positions whose exit cash flow was posted)
RECURSIVE BuildCashFlowsFrom(_, _, _, _)
BuildCashFlowsFrom(selected, k, b, args) ==
    IF k > Len(selected) \/ b.raised /= "none" THEN b
    ELSE LET investment == selected[k]
             lookup == IF args.use_alpha /\ args.beta_index /= None
                       THEN calculate_beta_return(args.beta_index, investment.entry_date,
                                                  investment.latest_date)
                       ELSE [raised |-> "none"]
             days_held == calculate_holding_period(investment.moic, investment.irr)
             exit_amount == MulRate(InvestmentAmount, investment.moic)
         IN IF lookup.raised = "ValueError"
            THEN BuildCashFlowsFrom(selected, k + 1, b, args)
            ELSE IF days_held.raised /= "none"
            THEN [b EXCEPT !.raised = days_held.raised]
            ELSE The({ BuildCashFlowsFrom(selected, k + 1, n, args) :
                       n \in { [b EXCEPT
                                 !.total_invested = @ + InvestmentAmount,
                                 !.has_negative_cash_flows = @ \/ exit_amount < 0,
                                 !.cash_flows = Post(@, days_held.value, exit_amount),
                                 !.posted = Append(@, k)] } })

\* the financial engineering costs of the net mode
LeverageCost(leverage_amount, cfg, years_held) ==
    MulRate(MulRate(leverage_amount, cfg.cost_of_capital), years_held)
ManagementFees(total_capital, cfg, years_held) ==
    MulRate(MulRate(total_capital, cfg.fee_rate), years_held)
HurdleReturn(total_capital, cfg, years_held) ==
    MulRate(total_capital, RateScale + MulRate(cfg.hurdle_rate, years_held))

\* carry charged on the whole profit over total capital, without the hurdle
CarryOnProfit(gross_returned, hurdle_return, total_capital, cfg) ==
    MulRate(IF gross_returned - total_capital > 0
            THEN gross_returned - total_capital ELSE 0, cfg.carry_rate)

CarryPaid(gross_returned, hurdle_return, total_capital, cfg) ==
    MulRate(IF gross_returned - hurdle_return > 0
            THEN gross_returned - hurdle_return ELSE 0, cfg.carry_rate)

\* the gross schedule handed on without the reduction
UnscaledCashFlows(cash_flows, net_returned, gross_returned) == cash_flows

\* {day: cf * reduction_factor for day, cf in cash_flows.items()}
NetCashFlows(cash_flows, net_returned, gross_returned) ==
    [k \in DOMAIN cash_flows |->
        [cash_flows[k] EXCEPT !.amount = IF gross_returned > 0
                                         THEN ScaleAmount(@, net_returned, gross_returned)
                                         ELSE 0]]

(***************************************************************************)
(* SpecSim: run_monte_carlo_simulation is called twice on the same         *)
(* universe and configuration; the per-call arguments (beta_index,         *)
(* apply_costs, use_alpha) are chosen freely for each call.                *)
(***************************************************************************)
MaxSimulations == 2

Investment(name, moic, irr, entry_date, days) ==
    [investment_name |-> name, moic |-> moic, irr |-> irr,
     entry_date |-> entry_date, latest_date |-> entry_date + days]

\* A doubles in a year, D quadruples in two, E gains 20% at 10% a year,
\* C is a total loss, N is an alpha-only record with a negative multiple
InvA == Investment("A", 20000, 10000, 100, 365)
InvC == Investment("C", 0, -5000, 300, 365)
InvD == Investment("D", 40000, 10000, 200, 730)
InvE == Investment("E", 12000, 1000, 200, 698)
InvN == Investment("N", -5000, -5000, 300, 365)
Universes == { <<InvA, InvD, InvC>>, <<InvC>>, <<InvA, InvE, InvN>> }

Configuration(mean, std, leverage_rate, cost_of_capital) ==
    [simulation_count |-> MaxSimulations,
     investment_count_mean |-> mean, investment_count_std |-> std,
     leverage_rate |-> leverage_rate, cost_of_capital |-> cost_of_capital,
     fee_rate |-> 200, carry_rate |-> 2000, hurdle_rate |-> 800]
Configurations == { Configuration(2, 1, 0, 0), Configuration(3, 1, 5000, 800) }

BetaIndexes == { None, BetaPriceIndex(0, 2000), BetaPriceIndex(150, 2000) }
CallArguments ==
    { a \in [beta_index : BetaIndexes, apply_costs : BOOLEAN, use_alpha : BOOLEAN] :
        a.beta_index /= None => a.use_alpha }

\* the locals of run_single_simulation before its first statement; step,
\* posted and solved are bookkeeping of the model: the last step done, the
\* positions of selected_investments posted to the schedule, and whether the
\* IRR solver itself ended on a root
NoDraw ==
    [step |-> "none", portfolio_size |-> 0, selected_investments |-> <<>>,
     posted |-> <<>>, cash_flows |-> <<>>, total_invested |-> 0,
     has_negative_cash_flows |-> FALSE, negative_total_returned |-> FALSE,
     raised |-> "none", max_day |-> 0, years_held |-> 0, gross_returned |-> 0,
     total_capital |-> 0, leverage_amount |-> 0, leverage_cost |-> 0,
     management_fees |-> 0, carry_paid |-> 0, net_returned |-> 0,
     gross_profit |-> 0, net_profit |-> 0, net_moic |-> 0,
     net_cash_flows |-> <<>>, solver |-> "none", solved |-> FALSE,
     net_irr |-> 0, irr_converged |-> TRUE]

\* progress_callback: None or a callable, with the calls made to it so far
NoCallback == [given |-> FALSE, received |-> <<>>]
Callback == [given |-> TRUE, received |-> <<>>]
\* what a callback may return
CallbackReturns == BOOLEAN
ProgressInterval == 100

\* (i + 1) / config.simulation_count
Fraction(i, count) == ((i + 1) * RateScale) \div count

\* a report after every iteration
ProgressEveryIteration(i, callback) == callback

\* if progress_callback and (i + 1) % 100 == 0
ProgressDue(i, callback) == callback /\ (i + 1) % ProgressInterval = 0

SimInit ==
    /\ investments \in Universes
    /\ config \in Configurations
    /\ calls \in [1..2 -> CallArguments]
    /\ call = 0
    /\ phase = "idle"
    /\ random_state = 0
    /\ simulation_id = 0
    /\ draw = NoDraw
    /\ results = <<<<>>, <<>>>>
    /\ outcome = <<"pending", "pending">>
    /\ progress = <<NoCallback, NoCallback>>
    /\ IrrIdle /\ CalcIdle

args == calls[call]

\* run_monte_carlo_simulation is called: the generator is created
StartCall ==
    /\ phase = "idle" /\ call < 2
    /\ call' = call + 1
    /\ random_state' = RandomState(Seed)
    /\ simulation_id' = 0
    /\ draw' = NoDraw
    /\ results' = [results EXCEPT ![call + 1] = <<>>]
    /\ outcome' = [outcome EXCEPT ![call + 1] = "running"]
    /\ phase' = "Sampling"
    /\ UNCHANGED <<investments, config, calls, progress, irrVars, calcVars>>

\* an exception leaves run_single_simulation and the call
Raise(err) ==
    /\ draw' = [draw EXCEPT !.raised = err]
    /\ outcome' = [outcome EXCEPT ![call] = "raised"]
    /\ phase' = "idle"
    /\ UNCHANGED <<random_state, simulation_id, results>>

\* Step 1: portfolio size
SamplePortfolioSize ==
    /\ phase = "Sampling"
    /\ \E size \in { generate_portfolio_size(config.investment_count_mean,
                                            config.investment_count_std,
                                            Len(investments), random_state) } :
          IF size.raised /= "none" THEN Raise(size.raised)
          ELSE /\ draw' = [NoDraw EXCEPT !.step = "sized", !.portfolio_size = size.value]
               /\ random_state' = size.state
               /\ phase' = "Selecting"
               /\ UNCHANGED <<simulation_id, results, outcome>>
    /\ UNCHANGED <<investments, config, calls, progress, call, irrVars, calcVars>>

\* Step 2: selection with replacement
SelectInvestments ==
    /\ phase = "Selecting"
    /\ \E selected \in { select_investments(investments, draw.portfolio_size,
                                            random_state) } :
          /\ draw' = [draw EXCEPT !.step = "selected",
                                  !.selected_investments = selected.value]
          /\ random_state' = selected.state
    /\ phase' = "CashFlowBuilding"
    /\ UNCHANGED <<investments, config, calls, progress, call, simulation_id, results, outcome,
                   irrVars, calcVars>>

\* Steps 3 to 5: the cash-flow schedule, the time period and the gross return
BuildCashFlows ==
    /\ phase = "CashFlowBuilding"
    /\ \E b \in { BuildCashFlowsFrom(draw.selected_investments, 1, draw, args) } :
          IF b.raised /= "none" THEN Raise(b.raised)
          ELSE /\ \E max_day \in { IF b.cash_flows /= <<>>
                                   THEN MaxKey(b.cash_flows, Len(b.cash_flows))
                                   ELSE DefaultMaxDay },
                     gross_returned \in { SumValues(b.cash_flows, Len(b.cash_flows)) } :
                     draw' = [b EXCEPT !.step = "built",
                                       !.max_day = max_day,
                                       !.years_held = YearsHeld(max_day),
                                       !.gross_returned = gross_returned,
                                       !.negative_total_returned = gross_returned < 0]
               /\ phase' = "Returns"
               /\ UNCHANGED <<random_state, simulation_id, results, outcome>>
    /\ UNCHANGED <<investments, config, calls, progress, call, irrVars, calcVars>>

\* apply_costs is False: no leverage, fees or carry
GrossMode ==
    /\ phase = "Returns" /\ ~args.apply_costs
    /\ draw' = [draw EXCEPT
                  !.step = "returns",
                  !.total_capital = draw.total_invested,
                  !.leverage_amount = 0, !.leverage_cost = 0,
                  !.management_fees = 0, !.carry_paid = 0,
                  !.net_returned = draw.gross_returned,
                  !.gross_profit = draw.gross_returned - draw.total_invested,
                  !.net_profit = draw.gross_returned - draw.total_invested,
                  !.net_moic = calculate_moic(draw.gross_returned, draw.total_invested)]
    /\ phase' = "IRRResolution"
    /\ UNCHANGED <<investments, config, calls, progress, call, random_state, simulation_id,
                   results, outcome, irrVars, calcVars>>

\* apply_costs is True: leverage, fees and carry
CostOverlay ==
    /\ phase = "Returns" /\ args.apply_costs
    /\ LET leverage_amount == MulRate(draw.total_invested, config.leverage_rate)
           total_capital == draw.total_invested + leverage_amount
           leverage_cost == LeverageCost(leverage_amount, config, draw.years_held)
           management_fees == ManagementFees(total_capital, config, draw.years_held)
           hurdle_return == HurdleReturn(total_capital, config, draw.years_held)
           carry_paid == CarryPaid(draw.gross_returned, hurdle_return, total_capital,
                                   config)
           net_returned == draw.gross_returned - leverage_cost - management_fees
                              - carry_paid
       IN draw' = [draw EXCEPT
                     !.step = "returns",
                     !.total_capital = total_capital,
                     !.leverage_amount = leverage_amount,
                     !.leverage_cost = leverage_cost,
                     !.management_fees = management_fees,
                     !.carry_paid = carry_paid,
                     !.net_returned = net_returned,
                     !.gross_profit = draw.gross_returned - total_capital,
                     !.net_profit = net_returned - draw.total_invested,
                     !.net_moic = calculate_moic(net_returned, draw.total_invested)]
    /\ phase' = "IRRResolution"
    /\ UNCHANGED <<investments, config, calls, progress, call, random_state, simulation_id,
                   results, outcome, irrVars, calcVars>>

\* Step 10 with the robust solver
ResolveIrrRobust ==
    /\ phase = "IRRResolution"
    /\ args.use_alpha \/ draw.has_negative_cash_flows
    /\ \E net_cash_flows \in { NetCashFlows(draw.cash_flows, draw.net_returned,
                                            draw.gross_returned) } :
       \E r \in { calculate_irr_robust(net_cash_flows, draw.total_invested) } :
          IF r.raised /= "none" THEN Raise(r.raised)
          ELSE /\ draw' = [draw EXCEPT !.step = "resolved",
                                       !.net_cash_flows = net_cash_flows,
                                       !.solver = "robust",
                                       !.solved = r.converged,
                                       !.net_irr = r.rate,
                                       !.irr_converged = r.converged]
               /\ phase' = "Emit"
               /\ UNCHANGED <<random_state, simulation_id, results, outcome>>
    /\ UNCHANGED <<investments, config, calls, progress, call, irrVars, calcVars>>

\* Step 10 with the plain Newton solver
ResolveIrrPlain ==
    /\ phase = "IRRResolution"
    /\ ~(args.use_alpha \/ draw.has_negative_cash_flows)
    /\ \E net_cash_flows \in { NetCashFlows(draw.cash_flows, draw.net_returned,
                                            draw.gross_returned) } :
       \E r \in { calculate_irr(net_cash_flows, draw.total_invested, MaxIterations,
                                Tolerance) } :
          IF r.raised /= "none" THEN Raise(r.raised)
          ELSE /\ draw' = [draw EXCEPT !.step = "resolved",
                                       !.net_cash_flows = net_cash_flows,
                                       !.solver = "plain",
                                       !.solved = r.by_tolerance,
                                       !.net_irr = r.rate,
                                       !.irr_converged = TRUE]
               /\ phase' = "Emit"
               /\ UNCHANGED <<random_state, simulation_id, results, outcome>>
    /\ UNCHANGED <<investments, config, calls, progress, call, irrVars, calcVars>>

\* the export_details argument of a call; False when the caller leaves it out
ExportDetails(a) == IF "export_details" \in DOMAIN a THEN a.export_details ELSE FALSE

\* investment_details: None (given is FALSE) without export_details, else one
\* entry for each investment whose exit cash flow was posted, in loop order
InvestmentDetails ==
    [given |-> ExportDetails(args),
     items |-> IF ~ExportDetails(args) THEN <<>>
               ELSE [k \in DOMAIN draw.posted |->
                       [investment_name |->
                           draw.selected_investments[draw.posted[k]].investment_name,
                        simulated_moic |-> draw.selected_investments[draw.posted[k]].moic,
                        simulated_irr |-> draw.selected_investments[draw.posted[k]].irr,
                        investment_amount |-> InvestmentAmount]]]

\* cash_flows if export_details else None
CashFlowSchedule ==
    [given |-> ExportDetails(args),
     items |-> IF ExportDetails(args) THEN draw.cash_flows ELSE <<>>]

RECURSIVE Names(_, _)
Names(selected, k) ==
    IF k = 0 THEN <<>> ELSE Append(Names(selected, k - 1), selected[k].investment_name)

\* a result numbered from 1
SimulationResultOneBased ==
    [simulation_id |-> simulation_id + 1,
     investments_selected |-> Names(draw.selected_investments,
                                    Len(draw.selected_investments)),
     investment_count |-> Len(draw.selected_investments),
     total_invested |-> draw.total_invested,
     total_returned |-> draw.net_returned,
     moic |-> draw.net_moic,
     irr |-> draw.net_irr,
     gross_profit |-> draw.gross_profit,
     net_profit |-> draw.net_profit,
     fees_paid |-> draw.management_fees,
     carry_paid |-> draw.carry_paid,
     leverage_cost |-> draw.leverage_cost,
     has_negative_cash_flows |-> draw.has_negative_cash_flows,
     irr_converged |-> draw.irr_converged,
     negative_total_returned |-> draw.negative_total_returned,
     investment_details |-> InvestmentDetails,
     cash_flow_schedule |-> CashFlowSchedule]

\* Step 11: the SimulationResult of the draw
SimulationResult ==
    [simulation_id |-> simulation_id,
     investments_selected |-> Names(draw.selected_investments,
                                    Len(draw.selected_investments)),
     investment_count |-> Len(draw.selected_investments),
     total_invested |-> draw.total_invested,
     total_returned |-> draw.net_returned,
     moic |-> draw.net_moic,
     irr |-> draw.net_irr,
     gross_profit |-> draw.gross_profit,
     net_profit |-> draw.net_profit,
     fees_paid |-> draw.management_fees,
     carry_paid |-> draw.carry_paid,
     leverage_cost |-> draw.leverage_cost,
     has_negative_cash_flows |-> draw.has_negative_cash_flows,
     irr_converged |-> draw.irr_converged,
     negative_total_returned |-> draw.negative_total_returned,
     investment_details |-> InvestmentDetails,
     cash_flow_schedule |-> CashFlowSchedule]

\* the result is appended and the progress reported; after the last iteration
\* the call returns
Emit ==
    /\ phase = "Emit"
    /\ results' = [results EXCEPT ![call] = Append(@, SimulationResult)]
    /\ IF ProgressDue(simulation_id, progress[call].given)
       THEN \E returned \in CallbackReturns :
               progress' = [progress EXCEPT ![call].received =
                               Append(@, [fraction |-> Fraction(simulation_id,
                                                                config.simulation_count),
                                          returned |-> returned])]
       ELSE UNCHANGED progress
    /\ draw' = [draw EXCEPT !.step = "emitted"]
    /\ simulation_id' = simulation_id + 1
    /\ IF simulation_id + 1 < config.simulation_count
       THEN phase' = "Sampling" /\ UNCHANGED outcome
       ELSE phase' = "idle" /\ outcome' = [outcome EXCEPT ![call] = "returned"]
    /\ UNCHANGED <<investments, config, calls, call, random_state, irrVars, calcVars>>

SimNext ==
    \/ StartCall
    \/ SamplePortfolioSize
    \/ SelectInvestments
    \/ BuildCashFlows
    \/ GrossMode
    \/ CostOverlay
    \/ ResolveIrrRobust
    \/ ResolveIrrPlain
    \/ Emit

SpecSim == SimInit /\ [][SimNext]_vars

(***************************************************************************)
(* SpecProgress: the same two calls, the first without and the second with *)
(* a progress callback, on runs short and long enough for the callback to  *)
(* be left out and to be called.                                           *)
(***************************************************************************)
MaxProgressCount == 200
ProgressCounts == { ProgressInterval - 1, ProgressInterval, MaxProgressCount }
ProgressArguments ==
    { [beta_index |-> None, apply_costs |-> TRUE, use_alpha |-> FALSE],
      [beta_index |-> None, apply_costs |-> FALSE, use_alpha |-> TRUE] }

ProgressInit ==
    /\ investments = <<InvA, InvD, InvC>>
    /\ config \in { [Configuration(2, 1, 5000, 800) EXCEPT !.simulation_count = n] :
                     n \in ProgressCounts }
    /\ calls \in { <<a, a>> : a \in ProgressArguments }
    /\ call = 0
    /\ phase = "idle"
    /\ random_state = 0
    /\ simulation_id = 0
    /\ draw = NoDraw
    /\ results = <<<<>>, <<>>>>
    /\ outcome = <<"pending", "pending">>
    /\ progress = <<NoCallback, Callback>>
    /\ IrrIdle /\ CalcIdle

SpecProgress == ProgressInit /\ [][SimNext]_vars

Last(seq) == seq[Len(seq)]

\* C1: two calls on the same universe and configuration return result lists of
\* equal length that agree, position by position, on investments_selected, and,
\* the calls being made with the same arguments, on moic and irr.
C1_Deterministic ==
    outcome = <<"returned", "returned">>
       => /\ Len(results[1]) = Len(results[2])
          /\ \A i \in DOMAIN results[1] :
                /\ results[1][i].investments_selected = results[2][i].investments_selected
                /\ calls[1] = calls[2] => /\ results[1][i].moic = results[2][i].moic
                                          /\ results[1][i].irr = results[2][i].irr

\* both calls returned on the same arguments, each with draws that differ
\* from one iteration to the next
C1_Witness ==
    /\ outcome = <<"returned", "returned">> /\ calls[1] = calls[2]
    /\ Len(results[2]) = config.simulation_count
    /\ results[2][1].investments_selected /= results[2][2].investments_selected
    /\ results[2][1].irr /= results[2][2].irr

\* the net schedule of the draw has |NPV| < 1000 at the IRR reported
DrawNpvVerified ==
    \E v \in { verify_npv(draw.net_irr, draw.net_cash_flows, draw.total_invested) } :
       v.raised = "none" /\ FLess(FAbs(v.npv), VerifyTolerance)

\* C4: no call raises out of the IRR solve, and a result whose IRR solve did
\* not converge (the solver did not end on a root, and the rate reported is
\* not one within the verification tolerance either) has irr_converged False,
\* on the robust and on the plain solver path.
C4_ConvergedFlag ==
    /\ \A c \in 1..2 : outcome[c] /= "raised"
    /\ (draw.step = "emitted" /\ ~draw.solved /\ ~DrawNpvVerified)
          => Last(results[call]).irr_converged = FALSE

\* exit amount and holding period of a selected investment
ExitAmount(investment) == MulRate(InvestmentAmount, investment.moic)
HoldingDays(investment) == calculate_holding_period(investment.moic, investment.irr).value

\* sum of the exit amounts of selected[1..k] held for exactly d days
RECURSIVE ExitsOnDay(_, _, _)
ExitsOnDay(selected, k, d) ==
    IF k = 0 THEN 0
    ELSE ExitsOnDay(selected, k - 1, d)
            + (IF HoldingDays(selected[k]) = d THEN ExitAmount(selected[k]) ELSE 0)

RECURSIVE ExitsTotal(_, _)
ExitsTotal(selected, k) ==
    IF k = 0 THEN 0 ELSE ExitsTotal(selected, k - 1) + ExitAmount(selected[k])

\* C8: once the schedule is built, it has one entry for each day on which a
\* selected investment exits and no other entry, the entry of day d is the sum
\* of the exit amounts of all selected investments held d days, and the entries
\* add up to the sum of all exit amounts, which is gross_returned.
C8_ScheduleSumsExits ==
    draw.step \in {"built", "returns", "resolved", "emitted"}
       => LET selected == draw.selected_investments
              schedule == draw.cash_flows
          IN /\ \A i, j \in DOMAIN schedule :
                   schedule[i].day = schedule[j].day => i = j
             /\ \A i \in DOMAIN schedule :
                   /\ \E k \in DOMAIN selected : HoldingDays(selected[k]) = schedule[i].day
                   /\ schedule[i].amount = ExitsOnDay(selected, Len(selected),
                                                      schedule[i].day)
             /\ \A k \in DOMAIN selected :
                   \E i \in DOMAIN schedule : schedule[i].day = HoldingDays(selected[k])
             /\ SumValues(schedule, Len(schedule)) = ExitsTotal(selected, Len(selected))
             /\ draw.gross_returned = ExitsTotal(selected, Len(selected))

\* the hurdle value of the emitted draw, from the result and the configuration
HurdleValue(result) ==
    LET total_capital == result.total_invested
                            + MulRate(result.total_invested, config.leverage_rate)
    IN MulRate(total_capital,
               RateScale + MulRate(config.hurdle_rate, YearsHeld(draw.max_day)))

\* C9: a result produced with apply_costs has total_returned = gross_returned -
\* leverage_cost - fees_paid - carry_paid with carry_paid = max(0, gross_returned
\* - hurdle_value) * carry_rate, hence no carry when gross_returned is within
\* the hurdle value; a result produced without apply_costs has the three costs
\* zero and total_returned = gross_returned.
C9_CostOverlay ==
    draw.step = "emitted"
       => LET result == Last(results[call])
              gross_returned == SumValues(draw.cash_flows, Len(draw.cash_flows))
              excess == gross_returned - HurdleValue(result)
          IN IF args.apply_costs
             THEN /\ result.total_returned = gross_returned - result.leverage_cost
                                                - result.fees_paid - result.carry_paid
                  /\ result.carry_paid
                        = MulRate(IF excess > 0 THEN excess ELSE 0, config.carry_rate)
                  /\ excess <= 0 => result.carry_paid = 0
             ELSE /\ result.leverage_cost = 0 /\ result.fees_paid = 0
                  /\ result.carry_paid = 0
                  /\ result.total_returned = gross_returned

\* a levered draw whose gross return clears the hurdle: all three costs charged
C9_Witness ==
    /\ draw.step = "emitted" /\ args.apply_costs
    /\ Last(results[call]).leverage_cost > 0
    /\ Last(results[call]).fees_paid > 0
    /\ Last(results[call]).carry_paid > 0
    /\ Last(results[call]).total_returned < draw.gross_returned

\* C10: the schedule handed to the IRR solver has the day keys of the gross
\* schedule; with gross_returned > 0 every amount is the gross amount times
\* net_returned / gross_returned and the amounts sum to net_returned (each
\* amount rounded to the unit), otherwise every amount is 0; the gross schedule
\* is still the one that was built.
C10_NetSchedule ==
    draw.step \in {"resolved", "emitted"}
       => LET gross == draw.cash_flows
              net == draw.net_cash_flows
              gross_returned == SumValues(gross, Len(gross))
              total == SumValues(net, Len(net))
          IN /\ Len(net) = Len(gross)
             /\ \A k \in DOMAIN gross : net[k].day = gross[k].day
             /\ IF gross_returned > 0
                THEN /\ \A k \in DOMAIN gross :
                           net[k].amount = ScaleAmount(gross[k].amount, draw.net_returned,
                                                       gross_returned)
                     /\ FAbs(total - draw.net_returned) <= Len(gross)
                ELSE \A k \in DOMAIN net : net[k].amount = 0
             /\ gross = BuildCashFlowsFrom(draw.selected_investments, 1, NoDraw,
                                           args).cash_flows

\* a schedule of two days scaled down by the costs of the draw
C10_Witness ==
    /\ draw.step = "resolved"
    /\ Len(draw.cash_flows) >= 2
    /\ draw.gross_returned > 0
    /\ draw.net_returned < draw.gross_returned
    /\ \A k \in DOMAIN draw.cash_flows :
          /\ draw.cash_flows[k].amount > 0
          /\ draw.net_cash_flows[k].amount < draw.cash_flows[k].amount

\* the phases of one iteration, in the order of the code
PhaseOrder ==
    <<"Sampling", "Selecting", "CashFlowBuilding", "Returns", "IRRResolution", "Emit">>
PhaseIndex(p) == CHOOSE k \in DOMAIN PhaseOrder : PhaseOrder[k] = p

\* a call that has returned holds simulation_count results numbered from 0, and
\* an iteration under way is the one after the results emitted so far
EmittedInOrder ==
    /\ \A c \in 1..2 :
          /\ outcome[c] = "returned" => Len(results[c]) = config.simulation_count
          /\ \A i \in DOMAIN results[c] : results[c][i].simulation_id = i - 1
    /\ phase /= "idle" => Len(results[call]) = simulation_id

\* one step of the driver: the next phase of the same iteration, or out of the
\* call on an exception; the generator is read only while sampling, the costs
\* are charged only under apply_costs, and only Emit adds a result
PhaseStep ==
    /\ phase = "idle" => phase' = "Sampling" /\ simulation_id' = 0
    /\ (phase /= "idle" /\ phase /= "Emit")
          => \/ /\ phase' = PhaseOrder[PhaseIndex(phase) + 1]
                /\ simulation_id' = simulation_id /\ results' = results
             \/ phase' = "idle" /\ outcome'[call] = "raised" /\ results' = results
    /\ phase = "Emit"
          => /\ results'[call] = Append(results[call], Last(results'[call]))
             /\ simulation_id' = simulation_id + 1
             /\ IF simulation_id' < config.simulation_count
                THEN phase' = "Sampling" /\ outcome' = outcome
                ELSE phase' = "idle" /\ outcome'[call] = "returned"
    /\ random_state' /= random_state => phase \in {"idle", "Sampling", "Selecting"}
    /\ phase = "Sampling" => draw'.portfolio_size >= 1 /\ draw'.selected_investments = <<>>
    /\ phase = "Selecting" => Len(draw'.selected_investments) = draw.portfolio_size
    /\ phase = "Returns"
          => /\ (draw'.management_fees /= 0 \/ draw'.leverage_cost /= 0
                   \/ draw'.carry_paid /= 0) => args.apply_costs
             /\ (args.apply_costs /\ draw'.total_capital > 0) => draw'.management_fees /= 0

\* C11: a call emits exactly simulation_count results, the i-th with
\* simulation_id i counted from 0; every iteration goes through Sampling (the
\* size, then the indices), CashFlowBuilding, the returns with the cost overlay
\* only under apply_costs, IRRResolution and Emit in this order, and the
\* generator is next read only after the iteration's result was emitted.
C11_PhaseOrdering == []EmittedInOrder /\ [][PhaseStep]_vars

\* a call with the cost overlay has returned all its results
C11_Witness ==
    /\ outcome[1] = "returned" /\ calls[1].apply_costs
    /\ Len(results[1]) = config.simulation_count
    /\ results[1][config.simulation_count].simulation_id = config.simulation_count - 1
    /\ results[1][1].fees_paid > 0

\* C12: the call with a progress callback returns the same results as the call
\* without one, whether the callback was called or the run was too short for
\* it; the callback has received (i + 1) / simulation_count after every 100th
\* iteration and nothing else, each a fraction in [0, 1], and what it returned
\* changed nothing.
C12_CallbackNeutral ==
    /\ \A c \in 1..2 :
          /\ ~progress[c].given => progress[c].received = <<>>
          /\ \A k \in DOMAIN progress[c].received :
                LET fraction == progress[c].received[k].fraction
                IN /\ fraction = (k * ProgressInterval * RateScale)
                                     \div config.simulation_count
                   /\ 0 <= fraction /\ fraction <= RateScale
          /\ outcome[c] = "returned"
                => Len(progress[c].received)
                      = IF progress[c].given
                        THEN config.simulation_count \div ProgressInterval ELSE 0
    /\ outcome = <<"returned", "returned">> => results[1] = results[2]

\* both calls returned, the callback of the second was called more than once
\* and answered differently
C12_Witness ==
    /\ outcome = <<"returned", "returned">>
    /\ progress[2].given /\ ~progress[1].given
    /\ Len(progress[2].received) >= 2
    /\ progress[2].received[1].returned /= progress[2].received[2].returned
    /\ results[1] = results[2] /\ Len(results[2]) = config.simulation_count

\* C13: of two calls in alpha mode that differ at most in the beta index (one
\* may have none), the results agree position by position on
\* investments_selected, total_invested, total_returned, moic and irr, and
\* every draw posts each selected investment's own MOIC and holding period.
C13_BetaDiagnosticsOnly ==
    /\ (/\ outcome = <<"returned", "returned">>
        /\ calls[1].use_alpha /\ calls[2].use_alpha
        /\ calls[1].apply_costs = calls[2].apply_costs)
          => /\ Len(results[1]) = Len(results[2])
             /\ \A i \in DOMAIN results[1] :
                   /\ results[1][i].investments_selected = results[2][i].investments_selected
                   /\ results[1][i].total_invested = results[2][i].total_invested
                   /\ results[1][i].total_returned = results[2][i].total_returned
                   /\ results[1][i].moic = results[2][i].moic
                   /\ results[1][i].irr = results[2][i].irr
    /\ (draw.step \in {"built", "returns", "resolved", "emitted"} /\ args.use_alpha)
          => draw.gross_returned = ExitsTotal(draw.selected_investments,
                                              Len(draw.selected_investments))

(***************************************************************************)
(* models.py: BetaPriceIndex with its observations.  A date is a day       *)
(* number, day 1 being 1 January of a year of 365 days (no leap years); a  *)
(* price is a whole number of cents; an index is a record [prices,         *)
(* frequency], prices a sequence of [date, price].                         *)
(***************************************************************************)
MonthDays == <<31, 28, 31, 30, 31, 30, 31, 31, 30, 31, 30, 31>>

\* the days of the year before the first of month m
RECURSIVE MonthOffset(_)
MonthOffset(m) == IF m = 1 THEN 0 ELSE MonthOffset(m - 1) + MonthDays[m - 1]

\* the length of the model's year
DaysInYear == MonthOffset(13)

DayOfYear(date) == ((date - 1) % DaysInYear) + 1
\* datetime(date.year, 1, 1)
YearStart(date) == date - DayOfYear(date) + 1
\* date.month
MonthOf(date) ==
    CHOOSE m \in 1..12 : /\ MonthOffset(m) < DayOfYear(date)
                         /\ DayOfYear(date) <= MonthOffset(m) + MonthDays[m]

\* BetaPriceIndex.calculate_midpoint
calculate_midpoint(frequency, date) ==
    IF frequency = "daily" THEN date
    ELSE IF frequency = "weekly" THEN date + 3
    ELSE IF frequency = "monthly"
    THEN YearStart(date) + MonthOffset(MonthOf(date)) + (MonthDays[MonthOf(date)] \div 2) - 1
    ELSE IF frequency = "quarterly"
    THEN LET quarter == (MonthOf(date) - 1) \div 3 + 1
         IN YearStart(date) + MonthOffset((quarter - 1) * 3 + 1) + 45
    ELSE IF frequency = "annual" THEN YearStart(date) + MonthOffset(7) + 1
    ELSE date

\* midpoints = [(self.calculate_midpoint(p.date), p.price) for p in self.prices]
Midpoints(index) ==
    [i \in DOMAIN index.prices |->
        [date |-> calculate_midpoint(index.frequency, index.prices[i].date),
         price |-> index.prices[i].price]]

\* price1 + (price2 - price1) * weight, towards zero
Interpolate(point1, point2, target_date) ==
    LET days_total == point2.date - point1.date
        days_from_start == target_date - point1.date
        rise == (point2.price - point1.price) * days_from_start
    IN IF days_total = 0 THEN point1.price
       ELSE point1.price + Sgn(rise) * Sgn(days_total)
                              * (FAbs(rise) \div FAbs(days_total))

\* the range of the observation dates as they were imported
RawDateRange(index) ==
    IF index.prices = <<>> THEN <<1, 0>>
    ELSE <<index.prices[1].date, index.prices[Len(index.prices)].date>>

\* min_date, max_date of get_price_on_date
MidpointRange(index) ==
    IF index.prices = <<>> THEN <<1, 0>>
    ELSE <<Midpoints(index)[1].date, Midpoints(index)[Len(index.prices)].date>>

\* BetaPriceIndex.get_price_on_date: [raised, price]
get_price_on_date(index, target_date) ==
    LET midpoints == Midpoints(index)
        n == Len(midpoints)
        range == MidpointRange(index)
        surrounding == { i \in 1..(n - 1) : /\ midpoints[i].date <= target_date
                                            /\ target_date <= midpoints[i + 1].date }
    IN IF n = 0 THEN [raised |-> "ValueError", price |-> 0]
       ELSE IF target_date < range[1] \/ target_date > range[2]
       THEN [raised |-> "ValueError", price |-> 0]
       ELSE IF surrounding /= {}
       THEN LET i == CHOOSE i \in surrounding : \A j \in surrounding : i <= j
            IN [raised |-> "none",
                price |-> Interpolate(midpoints[i], midpoints[i + 1], target_date)]
       ELSE IF target_date = midpoints[n].date
       THEN [raised |-> "none", price |-> midpoints[n].price]
       ELSE [raised |-> "ValueError", price |-> 0]

\* a hundredth, in units of 1e-4
Hundredth == RateScale \div 100

\* a * (g / RateScale) for a, g >= 0, MaxFloat once the product leaves the
\* range: the product is taken on the parts of a and g above and below RateScale
SatMul(a, g) ==
    IF a = 0 \/ g = 0 THEN 0
    ELSE IF a >= MaxFloat \/ g >= MaxFloat THEN MaxFloat
    ELSE IF a \div RateScale >= MaxFloat \div g THEN MaxFloat
    ELSE Clip((a \div RateScale) * g + (a % RateScale) * (g \div RateScale)
                + ((a % RateScale) * (g % RateScale)) \div RateScale)

\* base ** n for a whole n >= 0, by squaring
RECURSIVE PowerSat(_, _)
PowerSat(base, n) ==
    IF n = 0 THEN RateScale
    ELSE The({ IF n % 2 = 1 THEN SatMul(SatMul(half, half), base)
               ELSE SatMul(half, half) :
               half \in { PowerSat(base, n \div 2) } })

\* the largest k in lo..hi-1 with (k * step) ** n <= x, given that lo is one
RECURSIVE RootBetween(_, _, _, _, _)
RootBetween(x, n, lo, hi, step) ==
    IF hi - lo <= 1 THEN lo
    ELSE The({ IF PowerSat(mid * step, n) <= x THEN RootBetween(x, n, mid, hi, step)
               ELSE RootBetween(x, n, lo, mid, step) : mid \in { (lo + hi) \div 2 } })

\* x ** (1 / n) for a whole n >= 1: to the nearest hundredth below, then to
\* the unit
Root(x, n) ==
    IF x >= MaxFloat THEN MaxFloat
    ELSE The({ RootBetween(x, n, coarse * Hundredth, (coarse + 1) * Hundredth, 1) :
               coarse \in { RootBetween(x, n, 0,
                                        (IF x > RateScale THEN x ELSE RateScale)
                                            \div Hundredth + 1,
                                        Hundredth) } })

\* the whole number of bits of a multiple >= 1: floor(log2(multiple))
RECURSIVE Log2Floor(_)
Log2Floor(multiple) ==
    IF multiple < 2 * RateScale THEN 0 ELSE 1 + Log2Floor(multiple \div 2)

\* the multiple without its whole bits, in [1, 2)
RECURSIVE Mantissa(_)
Mantissa(multiple) ==
    IF multiple < 2 * RateScale THEN multiple ELSE Mantissa(multiple \div 2)

\* the next `bits` binary digits of log2 of a mantissa, as a whole number:
\* squaring the mantissa shifts its logarithm left by one digit
RECURSIVE Log2Digits(_, _)
Log2Digits(mantissa, bits) ==
    IF bits = 0 THEN 0
    ELSE The({ IF squared >= 2 * RateScale
               THEN 2 ^ (bits - 1) + Log2Digits(squared \div 2, bits - 1)
               ELSE Log2Digits(squared, bits - 1) :
               squared \in { SatMul(mantissa, mantissa) } })

\* floor(log2(multiple) * 2 ** LogBits) for a multiple >= 1
LogBits == 6
Log2Scaled(multiple) ==
    Log2Floor(multiple) * 2 ^ LogBits + Log2Digits(Mantissa(multiple), LogBits)

\* the largest binary exponent of a float
MaxExponent == 1024

\* multiple ** (1 / years_held) - 1 with years_held = days_held / 365.25 and
\* days_held > 0: [raised, value].  A float power of 2 ** 1024 or more raises
\* OverflowError: log2(multiple) * 365.25 / days_held >= 1024.  The value
\* takes the exponent to the nearest whole number of years, or of periods a
\* year for a holding below half a year.
Annualized(multiple, days_held) ==
    IF multiple >= RateScale
       /\ Log2Scaled(multiple) * 1461 >= MaxExponent * 2 ^ LogBits * 4 * days_held
    THEN [raised |-> "OverflowError", value |-> 0]
    ELSE LET grown ==
                 IF Years(days_held) >= 1 THEN Root(multiple, Years(days_held))
                 ELSE PowerSat(multiple, (2922 + 4 * days_held) \div (8 * days_held))
         IN [raised |-> "none",
             value |-> IF grown >= MaxFloat THEN MaxFloat ELSE grown - RateScale]

\* BetaPriceIndex.calculate_return: [raised, beta_moic, beta_irr]
calculate_return(index, entry_date, exit_date) ==
    LET entry_price == get_price_on_date(index, entry_date)
        exit_price == get_price_on_date(index, exit_date)
        Refuse(error) == [raised |-> error, beta_moic |-> 0, beta_irr |-> 0]
    IN IF entry_price.raised /= "none" THEN Refuse(entry_price.raised)
       ELSE IF exit_price.raised /= "none" THEN Refuse(exit_price.raised)
       ELSE IF entry_price.price = 0 THEN Refuse("ZeroDivisionError")
       ELSE IF exit_date - entry_date <= 0 THEN Refuse("ValueError")
       ELSE The({ The({ [raised |-> beta_irr.raised, beta_moic |-> beta_moic,
                         beta_irr |-> beta_irr.value] :
                        beta_irr \in { Annualized(beta_moic, exit_date - entry_date) } }) :
                  beta_moic \in { MulDivMod(exit_price.price, RateScale,
                                            entry_price.price)[1] } })

(***************************************************************************)
(* data_import.py: decompose_historical_beta.  beta_exposure is a whole    *)
(* number here, so that the power is a repeated product.                   *)
(***************************************************************************)
\* a beta component that leaves the exposure out
G_beta_unit(beta_moic_hist, beta_exposure) == beta_moic_hist

\* G_beta = beta_moic_hist ** beta_exposure
G_beta(beta_moic_hist, beta_exposure) == PowerSat(beta_moic_hist, beta_exposure)

\* G_alpha = G_total / G_beta
G_alpha(G_total, beta_component) == DivScaled(G_total, beta_component)

\* the body of the loop for one investment: [raised, alpha_inv, detail]
DecomposeOne(inv, beta_index, beta_exposure) ==
    LET Refuse(error) == [raised |-> error, alpha_inv |-> <<>>, detail |-> <<>>]
        days_held == inv.latest_date - inv.entry_date
    IN The({
         IF hist.raised /= "none" THEN Refuse(hist.raised)
         ELSE The({
           IF beta_component = 0 THEN Refuse("ZeroDivisionError")
           ELSE The({
             The({
               IF alpha_irr.raised /= "none" THEN Refuse(alpha_irr.raised)
               ELSE The({
                 IF beta_irr.raised /= "none" THEN Refuse(beta_irr.raised)
                 ELSE [raised |-> "none",
                       alpha_inv |-> [investment_name |-> inv.investment_name,
                                      fund_name |-> inv.fund_name,
                                      entry_date |-> inv.entry_date,
                                      latest_date |-> inv.latest_date,
                                      moic |-> alpha_moic,
                                      irr |-> alpha_irr.value],
                       detail |-> [name |-> inv.investment_name,
                                   total_moic |-> inv.moic,
                                   total_irr |-> inv.irr,
                                   beta_moic |-> beta_component,
                                   beta_irr |-> beta_irr.value,
                                   alpha_moic |-> alpha_moic,
                                   alpha_irr |-> alpha_irr.value]] :
                 beta_irr \in { IF beta_exposure = 1
                                THEN [raised |-> "none", value |-> hist.beta_irr]
                                ELSE Annualized(beta_component, days_held) } }) :
               alpha_irr \in { IF days_held > 0 THEN Annualized(alpha_moic, days_held)
                               ELSE [raised |-> "none", value |-> 0] } }) :
             alpha_moic \in { G_alpha(inv.moic, beta_component) } }) :
           beta_component \in { G_beta(hist.beta_moic, beta_exposure) } }) :
         hist \in { calculate_return(beta_index, inv.entry_date, inv.latest_date) } })

\* the loop from investment i on: ValueError skips the investment, any other
\* exception leaves the function
RECURSIVE DecomposeFrom(_, _, _, _, _)
DecomposeFrom(investment_list, beta_index, beta_exposure, i, acc) ==
    IF i > Len(investment_list) THEN acc
    ELSE The({
           IF one.raised = "ValueError"
           THEN DecomposeFrom(investment_list, beta_index, beta_exposure, i + 1,
                              [acc EXCEPT !.skipped_count = @ + 1])
           ELSE IF one.raised /= "none"
           THEN [acc EXCEPT !.raised = one.raised]
           ELSE DecomposeFrom(investment_list, beta_index, beta_exposure, i + 1,
                              [acc EXCEPT !.alpha_investments = Append(@, one.alpha_inv),
                                          !.decomposition_details = Append(@, one.detail)]) :
           one \in { DecomposeOne(investment_list[i], beta_index, beta_exposure) } })

\* decompose_historical_beta: [raised, alpha_investments, diagnostics], with
\* the argument list as the call leaves it
decompose_historical_beta(investment_list, beta_index, beta_exposure) ==
    The({ IF done.raised /= "none"
          THEN [raised |-> done.raised, alpha_investments |-> <<>>,
                diagnostics |-> <<>>, investments |-> investment_list]
          ELSE [raised |-> "none",
                alpha_investments |-> done.alpha_investments,
                diagnostics |->
                    [total_investments |-> Len(investment_list),
                     decomposed_investments |->
                         IF done.decomposition_details /= <<>>
                         THEN Len(done.alpha_investments) ELSE 0,
                     skipped_investments |-> done.skipped_count,
                     details |-> done.decomposition_details],
                investments |-> investment_list] :
          done \in { DecomposeFrom(investment_list, beta_index, beta_exposure, 1,
                                   [raised |-> "none", alpha_investments |-> <<>>,
                                    skipped_count |-> 0,
                                    decomposition_details |-> <<>>]) } })

\* reconstruction.py: reconstructed_moic = simulated_moic * (beta_moic ** config.beta_exposure)
reconstructed_moic(simulated_moic, beta_moic, beta_exposure) ==
    MulRate(simulated_moic, PowerSat(beta_moic, beta_exposure))

(***************************************************************************)
(* SpecBeta: the beta index is asked for prices and returns, and an        *)
(* investment list is decomposed against it.                               *)
(***************************************************************************)
PriceIndex(frequency, prices) == [frequency |-> frequency, prices |-> prices]
BetaPrice(date, price) == [date |-> date, price |-> price]

\* monthly observations on the first of January, February and March of year
\* one and of January of years two and three: midpoints 15, 45, 74, 380, 745
MonthlyIndex ==
    PriceIndex("monthly", <<BetaPrice(1, 10000), BetaPrice(32, 11000),
                            BetaPrice(60, 12100), BetaPrice(366, 15000),
                            BetaPrice(731, 20000)>>)
PriceIndexes ==
    { MonthlyIndex,
      PriceIndex("monthly", <<>>),
      \* two observations in one month share a midpoint
      PriceIndex("monthly", <<BetaPrice(1, 10000), BetaPrice(20, 10400),
                              BetaPrice(60, 12100)>>),
      PriceIndex("daily", <<BetaPrice(10, 10000), BetaPrice(16, 9000),
                            BetaPrice(380, 12000)>>),
      PriceIndex("weekly", <<BetaPrice(8, 10000), BetaPrice(15, 10100),
                             BetaPrice(71, 10900)>>),
      PriceIndex("quarterly", <<BetaPrice(1, 10000), BetaPrice(100, 10500),
                                BetaPrice(400, 13000)>>),
      PriceIndex("annual", <<BetaPrice(50, 10000), BetaPrice(400, 11000)>>),
      PriceIndex("irregular", <<BetaPrice(15, 10000)>>) }
BetaDates == {1, 10, 11, 14, 15, 16, 18, 45, 46, 74, 75, 136, 183, 380, 381, 548, 745, 746}

FundInvestment(name, fund, moic, irr, entry_date, days) ==
    [investment_name |-> name, fund_name |-> fund, moic |-> moic, irr |-> irr,
     entry_date |-> entry_date, latest_date |-> entry_date + days]

\* against MonthlyIndex: A, C, E and G are covered; B enters on day 10,
\* after the first observation and before its midpoint; F exits after the
\* last midpoint; Q is covered and multiplies eightfold in one day
BetaA == FundInvestment("A", "Fund I", 20000, 10000, 15, 365)
BetaB == FundInvestment("B", "Fund I", 15000, 5000, 10, 370)
BetaC == FundInvestment("C", "Fund II", 0, -10000, 45, 29)
BetaE == FundInvestment("E", "Fund II", 12100, 30000, 15, 59)
BetaF == FundInvestment("F", "Fund I", 30000, 7000, 380, 366)
BetaG == FundInvestment("G", "Fund III", 40000, 10000, 15, 730)
BetaQ == FundInvestment("Q", "Fund III", 80000, MaxFloat, 15, 1)
BetaUniverses ==
    { <<>>, <<BetaB>>, <<BetaA, BetaB, BetaC>>, <<BetaB, BetaE, BetaF>>,
      <<BetaG, BetaA, BetaE>>, <<BetaF, BetaC, BetaG>>, <<BetaA, BetaQ, BetaE>> }
BetaExposures == {0, 1, 2}

CallGetPriceOnDate ==
    /\ calc_op = "idle"
    /\ \E index \in PriceIndexes, target_date \in BetaDates :
          /\ calc_op' = "get_price_on_date"
          /\ calc_args' = [index |-> index, target_date |-> target_date]
          /\ calc_out' = get_price_on_date(index, target_date)
    /\ UNCHANGED <<irrVars, simVars>>

CallCalculateReturn ==
    /\ calc_op = "idle"
    /\ \E index \in PriceIndexes, entry_date \in BetaDates, exit_date \in BetaDates :
          /\ calc_op' = "calculate_return"
          /\ calc_args' = [index |-> index, entry_date |-> entry_date,
                           exit_date |-> exit_date]
          /\ calc_out' = calculate_return(index, entry_date, exit_date)
    /\ UNCHANGED <<irrVars, simVars>>

CallDecompose ==
    /\ calc_op = "idle"
    /\ \E universe \in BetaUniverses, index \in PriceIndexes,
          beta_exposure \in BetaExposures :
          /\ calc_op' = "decompose_historical_beta"
          /\ calc_args' = [investments |-> universe, beta_index |-> index,
                           beta_exposure |-> beta_exposure]
          /\ calc_out' = decompose_historical_beta(universe, index, beta_exposure)
    /\ UNCHANGED <<irrVars, simVars>>

BetaNext == CallGetPriceOnDate \/ CallCalculateReturn \/ CallDecompose \/ CalcReturn

SpecBeta == CalcInit /\ [][BetaNext]_vars

\* C16: get_price_on_date raises a coverage error exactly when the index is
\* empty or the target date lies before the midpoint of the first observation
\* or after the midpoint of the last one, and returns a price otherwise;
\* calculate_return raises when the entry date precedes the earliest midpoint
\* (even on or after the first observation date) and when the exit date is
\* not after the entry date.
FirstMidpoint(index) == calculate_midpoint(index.frequency, index.prices[1].date)
LastMidpoint(index) ==
    calculate_midpoint(index.frequency, index.prices[Len(index.prices)].date)
C16_CoverageError ==
    /\ calc_op = "get_price_on_date" =>
          /\ calc_out.raised \in {"none", "ValueError"}
          /\ calc_out.raised = "ValueError" <=>
                \/ calc_args.index.prices = <<>>
                \/ calc_args.target_date < FirstMidpoint(calc_args.index)
                \/ calc_args.target_date > LastMidpoint(calc_args.index)
    /\ calc_op = "calculate_return" =>
          /\ calc_args.index.prices = <<>> => calc_out.raised = "ValueError"
          /\ ( /\ calc_args.index.prices /= <<>>
               /\ calc_args.entry_date < FirstMidpoint(calc_args.index) )
                => calc_out.raised = "ValueError"
          /\ calc_args.exit_date <= calc_args.entry_date
                => calc_out.raised = "ValueError"

\* an entry on or after the first observation date and before its midpoint,
\* with a later exit inside the range, is refused
C16_Witness ==
    /\ calc_op = "calculate_return"
    /\ calc_args.index.prices /= <<>>
    /\ calc_args.entry_date >= calc_args.index.prices[1].date
    /\ calc_args.entry_date < FirstMidpoint(calc_args.index)
    /\ calc_args.exit_date >= FirstMidpoint(calc_args.index)
    /\ calc_args.exit_date <= LastMidpoint(calc_args.index)
    /\ calc_out.raised = "ValueError"

\* the holding window of an investment lies within the index's midpoints
Covered(inv, index) ==
    /\ index.prices /= <<>>
    /\ FirstMidpoint(index) <= inv.entry_date
    /\ inv.latest_date <= LastMidpoint(index)
Identity(inv) ==
    <<inv.investment_name, inv.fund_name, inv.entry_date, inv.latest_date>>
Identities(investment_list) ==
    [i \in DOMAIN investment_list |-> Identity(investment_list[i])]

\* C14: decompose_historical_beta returns one alpha-only investment for each
\* input investment whose holding window the index covers, in input order
\* and with name, fund and dates unchanged, and none for the others;
\* decomposed_investments + skipped_investments = total_investments, and the
\* input list is not modified.
C14_OnePerCovered ==
    calc_op = "decompose_historical_beta" =>
        LET IsCovered(inv) == Covered(inv, calc_args.beta_index)
        IN /\ calc_out.raised = "none"
           /\ Identities(calc_out.alpha_investments)
                 = Identities(SelectSeq(calc_args.investments, IsCovered))
           /\ calc_out.diagnostics.decomposed_investments
                 + calc_out.diagnostics.skipped_investments
                 = calc_out.diagnostics.total_investments
           /\ calc_out.diagnostics.total_investments = Len(calc_args.investments)
           /\ calc_out.investments = calc_args.investments

\* the market return of an investment's holding window
MarketReturn(inv, index) ==
    calculate_return(index, inv.entry_date, inv.latest_date).beta_moic

\* what one division and one multiplication on the grid of 1e-4 can lose:
\* less than one unit of the alpha multiple, magnified by the beta component,
\* and one unit of the product
RoundTripSlack(beta_moic, beta_exposure) ==
    PowerSat(beta_moic, beta_exposure) \div RateScale + 1

Randint(high, state) ==
    [value |-> (NextRandom(state) \div 11) % high, state |-> NextRandom(state)]

\* calculate_beta_moic_from_path: [raised, beta_moic]
calculate_beta_moic_from_path(path_index, prices, days_held) ==
    LET n == Len(path_index)
        exit_date == path_index[1] + days_held
        dates_before == { i \in 1..n : path_index[i] <= exit_date }
        dates_after == { i \in 1..n : path_index[i] > exit_date }
        Point(i) == [date |-> path_index[i], price |-> prices[i]]
        Moic(exit_price) ==
            [raised |-> "none", beta_moic |-> MulDivMod(exit_price, RateScale, prices[1])[1]]
    IN IF exit_date > path_index[n] THEN [raised |-> "ValueError", beta_moic |-> 0]
       ELSE IF \E i \in 1..n : path_index[i] = exit_date
       THEN Moic(prices[CHOOSE i \in 1..n : path_index[i] = exit_date])
       ELSE IF dates_before = {} \/ dates_after = {}
       THEN [raised |-> "ValueError", beta_moic |-> 0]
       ELSE Moic(Interpolate(Point(CHOOSE i \in dates_before : \A j \in dates_before : j <= i),
                             Point(CHOOSE i \in dates_after : \A j \in dates_after : i <= j),
                             exit_date))

\* every investment is kept, whatever the horizon
NeverSkipped(raised) == FALSE

\* except ValueError: skipped_investments += 1; continue
SkippedInvestment(raised) == raised = "ValueError"

\* the loop over the investment details of one alpha result, from detail k
\* on; b holds the loop's variables and the generator's state
RECURSIVE ReconstructDetailsFrom(_, _, _, _, _)
ReconstructDetailsFrom(details, k, beta_paths, beta_exposure, b) ==
    IF k > Len(details) \/ b.raised /= "none" THEN b
    ELSE LET inv_detail == details[k]
         IN The({ The({
              IF SkippedInvestment(path.raised)
              THEN ReconstructDetailsFrom(details, k + 1, beta_paths, beta_exposure,
                      [b EXCEPT !.state = drawn.state, !.skipped_investments = @ + 1])
              ELSE IF path.raised /= "none"
              THEN [b EXCEPT !.raised = path.raised]
              ELSE The({
                IF beta_irr.raised /= "none" THEN [b EXCEPT !.raised = beta_irr.raised]
                ELSE LET moic == reconstructed_moic(inv_detail.simulated_moic,
                                                    path.beta_moic, beta_exposure)
                         irr == IF inv_detail.days_held > 0
                                THEN MulRate(RateScale + inv_detail.simulated_irr,
                                             PowerSat(RateScale + beta_irr.value,
                                                      beta_exposure)) - RateScale
                                ELSE 0
                         exit_amount == MulRate(inv_detail.investment_amount, moic)
                     IN ReconstructDetailsFrom(details, k + 1, beta_paths, beta_exposure,
                          [b EXCEPT
                             !.state = drawn.state,
                             !.total_invested = @ + inv_detail.investment_amount,
                             !.has_negative_cash_flows = @ \/ exit_amount < 0,
                             !.cash_flows = Post(@, inv_detail.days_held, exit_amount),
                             !.reconstructed_details = Append(@,
                                 [investment_name |-> inv_detail.investment_name,
                                  simulated_moic |-> moic,
                                  simulated_irr |-> irr,
                                  alpha_moic |-> inv_detail.simulated_moic,
                                  alpha_irr |-> inv_detail.simulated_irr,
                                  beta_moic |-> path.beta_moic,
                                  beta_irr |-> beta_irr.value,
                                  days_held |-> inv_detail.days_held,
                                  investment_amount |-> inv_detail.investment_amount])]) :
                beta_irr \in { IF inv_detail.days_held > 0
                               THEN Annualized(path.beta_moic, inv_detail.days_held)
                               ELSE [raised |-> "none", value |-> 0] } }) :
              path \in { calculate_beta_moic_from_path(
                             beta_paths.index, beta_paths.columns[drawn.value + 1],
                             inv_detail.days_held) } }) :
            drawn \in { Randint(Len(beta_paths.columns), b.state) } })

\* investment_details: None, or the list of the details
NoDetails == [given |-> FALSE, items |-> <<>>]
Details(items) == [given |-> TRUE, items |-> items]

\* calculate_irr_robust when the schedule has a negative cash flow, else
\* calculate_irr with irr_converged = True: [raised, rate, converged]
SolveIrr(cash_flows, total_invested, has_negative_cash_flows) ==
    IF has_negative_cash_flows
    THEN The({ [raised |-> r.raised, rate |-> r.rate, converged |-> r.converged] :
               r \in { calculate_irr_robust(cash_flows, total_invested) } })
    ELSE The({ [raised |-> r.raised, rate |-> r.rate, converged |-> TRUE] :
               r \in { calculate_irr(cash_flows, total_invested, MaxIterations,
                                     Tolerance) } })

\* the portfolio-level part for one alpha result whose details gave b:
\* [raised, dropped, result]
ReconstructedResult(alpha_result, b) ==
    IF b.cash_flows = <<>> THEN [raised |-> "none", dropped |-> TRUE, result |-> <<>>]
    ELSE The({ The({
           [raised |-> solved.raised, dropped |-> FALSE,
            result |->
              [simulation_id |-> alpha_result.simulation_id,
               investments_selected |->
                   [i \in DOMAIN b.reconstructed_details |->
                       b.reconstructed_details[i].investment_name],
               investment_count |-> Len(b.reconstructed_details),
               total_invested |-> b.total_invested,
               total_returned |-> gross_returned,
               moic |-> calculate_moic(gross_returned, b.total_invested),
               irr |-> solved.rate,
               gross_profit |-> gross_returned - b.total_invested,
               net_profit |-> gross_returned - b.total_invested,
               fees_paid |-> 0,
               carry_paid |-> 0,
               leverage_cost |-> 0,
               has_negative_cash_flows |-> b.has_negative_cash_flows,
               irr_converged |-> solved.converged,
               negative_total_returned |-> gross_returned < 0,
               investment_details |-> Details(b.reconstructed_details),
               cash_flow_schedule |-> b.cash_flows]] :
           solved \in { SolveIrr(b.cash_flows, b.total_invested,
                                 b.has_negative_cash_flows) } }) :
           gross_returned \in { SumValues(b.cash_flows, Len(b.cash_flows)) } })

\* the loop over alpha_results from result k on; acc holds reconstructed_results,
\* the counters and the generator's state
RECURSIVE ReconstructFrom(_, _, _, _, _)
ReconstructFrom(alpha_results, k, beta_paths, beta_exposure, acc) ==
    IF k > Len(alpha_results) \/ acc.raised /= "none" THEN acc
    ELSE IF ~alpha_results[k].investment_details.given
    THEN ReconstructFrom(alpha_results, k + 1, beta_paths, beta_exposure, acc)
    ELSE The({ The({
           ReconstructFrom(alpha_results, k + 1, beta_paths, beta_exposure,
              IF b.raised /= "none" THEN [acc EXCEPT !.raised = b.raised]
              ELSE IF one.raised /= "none" THEN [acc EXCEPT !.raised = one.raised]
              ELSE [acc EXCEPT
                      !.state = b.state,
                      !.total_alpha_investments =
                          @ + Len(alpha_results[k].investment_details.items),
                      !.skipped_investments = @ + b.skipped_investments,
                      !.reconstructed_results =
                          IF one.dropped THEN @ ELSE Append(@, one.result)]) :
           one \in { IF b.raised /= "none"
                     THEN [raised |-> "none", dropped |-> TRUE, result |-> <<>>]
                     ELSE ReconstructedResult(alpha_results[k], b) } }) :
           b \in { ReconstructDetailsFrom(alpha_results[k].investment_details.items, 1,
                                          beta_paths, beta_exposure,
                                          [raised |-> "none", state |-> acc.state,
                                           skipped_investments |-> 0,
                                           total_invested |-> 0,
                                           has_negative_cash_flows |-> FALSE,
                                           cash_flows |-> <<>>,
                                           reconstructed_details |-> <<>>]) } })

\* reconstruct_gross_performance: [raised, reconstructed_results,
\* skipped_investments, state]
reconstruct_gross_performance(alpha_results, beta_paths, beta_exposure, state) ==
    The({ IF done.raised = "none" /\ Len(done.reconstructed_results) = 0
          THEN [done EXCEPT !.raised = "ValueError"]
          ELSE done :
          done \in { ReconstructFrom(alpha_results, 1, beta_paths, beta_exposure,
                                     [raised |-> "none", state |-> state,
                                      total_alpha_investments |-> 0,
                                      skipped_investments |-> 0,
                                      reconstructed_results |-> <<>>]) } })

(***************************************************************************)
(* reconstruction.py: reconstruct_net_performance                          *)
(***************************************************************************)
NetDefaultMaxDay == 365

\* a hurdle that does not grow with the holding period
NetHurdleFlat(total_capital, cfg, years_held) ==
    MulRate(total_capital, RateScale + cfg.hurdle_rate)

\* hurdle_return = total_capital * (1 + config.hurdle_rate * years_held)
NetHurdleReturn(total_capital, cfg, years_held) ==
    MulRate(total_capital, RateScale + MulRate(cfg.hurdle_rate, years_held))

\* the body of the loop for one gross result: [raised, result]
NetResult(gross_result, cfg) ==
    LET total_invested == gross_result.total_invested
        gross_returned == gross_result.total_returned
        schedule == gross_result.cash_flow_schedule
        max_day == IF schedule /= <<>> THEN MaxKey(schedule, Len(schedule))
                   ELSE NetDefaultMaxDay
        years_held == YearsHeld(max_day)
        leverage_amount == MulRate(total_invested, cfg.leverage_rate)
        total_capital == total_invested + leverage_amount
        leverage_cost == MulRate(MulRate(leverage_amount, cfg.cost_of_capital), years_held)
        management_fees == MulRate(MulRate(total_capital, cfg.fee_rate), years_held)
        hurdle_return == NetHurdleReturn(total_capital, cfg, years_held)
        excess_return == IF gross_returned - hurdle_return > 0
                         THEN gross_returned - hurdle_return ELSE 0
        carry_paid == MulRate(excess_return, cfg.carry_rate)
        net_returned == gross_returned - leverage_cost - management_fees - carry_paid
        net_cash_flows ==
            [k \in DOMAIN schedule |->
                [schedule[k] EXCEPT !.amount =
                    IF gross_returned > 0
                    THEN ScaleAmount(@, net_returned, gross_returned) ELSE 0]]
    IN The({
         [raised |-> solved.raised,
          result |->
            [simulation_id |-> gross_result.simulation_id,
             investments_selected |-> gross_result.investments_selected,
             investment_count |-> gross_result.investment_count,
             total_invested |-> total_invested,
             total_returned |-> net_returned,
             moic |-> calculate_moic(net_returned, total_invested),
             irr |-> solved.rate,
             gross_profit |-> gross_returned - total_capital,
             net_profit |-> net_returned - total_invested,
             fees_paid |-> management_fees,
             carry_paid |-> carry_paid,
             leverage_cost |-> leverage_cost,
             has_negative_cash_flows |-> gross_result.has_negative_cash_flows,
             irr_converged |-> solved.converged,
             negative_total_returned |-> gross_result.negative_total_returned,
             investment_details |-> gross_result.investment_details,
             cash_flow_schedule |-> gross_result.cash_flow_schedule]] :
         solved \in { IF schedule /= <<>>
                      THEN SolveIrr(net_cash_flows, total_invested,
                                    gross_result.has_negative_cash_flows)
                      ELSE [raised |-> "none", rate |-> 0, converged |-> FALSE] } })

\* the loop from gross result k on
RECURSIVE NetFrom(_, _, _, _)
NetFrom(gross_results, k, cfg, acc) ==
    IF k > Len(gross_results) \/ acc.raised /= "none" THEN acc
    ELSE The({ NetFrom(gross_results, k + 1, cfg,
                       IF one.raised /= "none" THEN [acc EXCEPT !.raised = one.raised]
                       ELSE [acc EXCEPT !.net_results = Append(@, one.result)]) :
               one \in { NetResult(gross_results[k], cfg) } })

\* reconstruct_net_performance: [raised, net_results], with the argument list
\* as the call leaves it
reconstruct_net_performance(gross_results, cfg) ==
    The({ [raised |-> done.raised, net_results |-> done.net_results,
           gross_results |-> gross_results] :
          done \in { NetFrom(gross_results, 1, cfg,
                             [raised |-> "none", net_results |-> <<>>]) } })

(***************************************************************************)
(* SpecRecon: alpha results are reconstructed against simulated beta       *)
(* paths, and gross results are taken to net results.                      *)
(***************************************************************************)
InvestmentDetail(name, simulated_moic, simulated_irr, days_held) ==
    [investment_name |-> name, simulated_moic |-> simulated_moic,
     simulated_irr |-> simulated_irr, days_held |-> days_held,
     investment_amount |-> InvestmentAmount]

\* paths over 799 days and over 365 days, one rising and one falling
LongPaths ==
    [index |-> <<1, 400, 800>>,
     columns |-> << <<10000, 11000, 12100>>, <<10000, 9000, 9500>> >>]
ShortPaths ==
    [index |-> <<1, 200, 366>>,
     columns |-> << <<10000, 10500, 11000>>, <<10000, 9800, 9000>> >>]
BetaPathSets == { LongPaths, ShortPaths }

\* held for a year; beyond every horizon; exactly the long horizon; a
\* negative alpha multiple
DetailA == InvestmentDetail("A", 15000, 5000, 365)
DetailD == InvestmentDetail("D", 20000, 1500, 2000)
DetailE == InvestmentDetail("E", 16000, 2400, 799)
DetailN == InvestmentDetail("N", -5000, -5000, 365)

\* the results of an alpha run, numbered as the driver numbers them, with
\* the fields the reconstruction reads
AlphaResults(details) ==
    [i \in DOMAIN details |-> [simulation_id |-> i - 1, investment_details |-> details[i]]]
AlphaRuns ==
    { AlphaResults(<<>>),
      AlphaResults(<<Details(<<DetailD>>)>>),
      AlphaResults(<<Details(<<DetailD>>), Details(<<>>)>>),
      AlphaResults(<<Details(<<DetailA, DetailD>>), Details(<<DetailD>>)>>),
      AlphaResults(<<Details(<<DetailN, DetailE>>), Details(<<DetailA, DetailD>>)>>),
      AlphaResults(<<NoDetails, Details(<<DetailE, DetailA, DetailA>>)>>),
      AlphaResults(<<Details(<<DetailD, DetailE>>), Details(<<DetailN>>), Details(<<>>)>>),
      AlphaResults(<<Details(<<DetailE>>), Details(<<DetailD>>), Details(<<DetailA>>)>>) }

\* a gross result of the driver whose investments were all passed over
EmptyGross ==
    [simulation_id |-> 0, investments_selected |-> <<"A">>, investment_count |-> 1,
     total_invested |-> 0, total_returned |-> 0, moic |-> 0, irr |-> 0,
     gross_profit |-> 0, net_profit |-> 0, fees_paid |-> 0, carry_paid |-> 0,
     leverage_cost |-> 0, has_negative_cash_flows |-> FALSE, irr_converged |-> FALSE,
     negative_total_returned |-> FALSE, investment_details |-> Details(<<>>),
     cash_flow_schedule |-> <<>>]

\* the gross results handed to the net step: what the gross step returned
GrossRuns ==
    { <<>>, <<EmptyGross>> } \cup
    { reconstruct_gross_performance(run, paths, 1, state).reconstructed_results :
        run \in AlphaRuns, paths \in BetaPathSets, state \in 0..1 }

CallReconstructGross ==
    /\ calc_op = "idle"
    /\ \E run \in AlphaRuns, paths \in BetaPathSets, beta_exposure \in BetaExposures,
          state \in 0..MaxGeneratorState :
          /\ calc_op' = "reconstruct_gross_performance"
          /\ calc_args' = [alpha_results |-> run, beta_paths |-> paths,
                           beta_exposure |-> beta_exposure, state |-> state]
          /\ calc_out' = reconstruct_gross_performance(run, paths, beta_exposure, state)
    /\ UNCHANGED <<irrVars, simVars>>

CallReconstructNet ==
    /\ calc_op = "idle"
    /\ \E gross_results \in GrossRuns, cfg \in Configurations :
          /\ calc_op' = "reconstruct_net_performance"
          /\ calc_args' = [gross_results |-> gross_results, config |-> cfg]
          /\ calc_out' = reconstruct_net_performance(gross_results, cfg)
    /\ UNCHANGED <<irrVars, simVars>>

ReconNext == CallReconstructGross \/ CallReconstructNet \/ CalcReturn

SpecRecon == CalcInit /\ [][ReconNext]_vars

\* the simulated beta horizon, and the details of an alpha result that fit it
HorizonDays(beta_paths) ==
    beta_paths.index[Len(beta_paths.index)] - beta_paths.index[1]
FittingDetails(alpha_result, beta_paths) ==
    LET Fits(detail) == detail.days_held <= HorizonDays(beta_paths)
    IN SelectSeq(alpha_result.investment_details.items, Fits)
DetailNames(details) == [i \in DOMAIN details |-> details[i].investment_name]

\* C17: reconstruct_gross_performance raises when no investment's holding
\* period fits the simulated beta horizon.  When an investment of some alpha
\* result fits, it returns a non-empty list without raising: an investment
\* that does not fit is skipped, a portfolio is dropped only when all its
\* investments were skipped, and investment_count is the number of the
\* portfolio's investments that were not skipped.
C17_Exhaustion ==
    calc_op = "reconstruct_gross_performance" =>
        LET paths == calc_args.beta_paths
            Kept(alpha_result) == FittingDetails(alpha_result, paths) /= <<>>
            kept == SelectSeq(calc_args.alpha_results, Kept)
            out == calc_out.reconstructed_results
        IN /\ kept = <<>> => calc_out.raised = "ValueError"
           /\ kept /= <<>> =>
                /\ calc_out.raised = "none"
                /\ Len(out) = Len(kept)
                /\ \A i \in DOMAIN out :
                      /\ out[i].simulation_id = kept[i].simulation_id
                      /\ out[i].investment_count = Len(FittingDetails(kept[i], paths))
                      /\ out[i].investments_selected
                            = DetailNames(FittingDetails(kept[i], paths))
                      /\ DetailNames(out[i].investment_details.items)
                            = out[i].investments_selected

\* a run in which one investment is skipped inside a kept portfolio and a
\* whole portfolio is dropped
C17_Witness ==
    /\ calc_op = "reconstruct_gross_performance"
    /\ calc_out.raised = "none"
    /\ calc_out.skipped_investments >= 2
    /\ Len(calc_out.reconstructed_results) < Len(calc_args.alpha_results)
    /\ \E i \in DOMAIN calc_out.reconstructed_results :
          \E k \in DOMAIN calc_args.alpha_results :
             /\ calc_args.alpha_results[k].simulation_id
                   = calc_out.reconstructed_results[i].simulation_id
             /\ calc_out.reconstructed_results[i].investment_count
                   < Len(calc_args.alpha_results[k].investment_details.items)

\* the overlay of run_single_simulation with apply_costs=True on a gross
\* schedule, invested capital and configuration
DriverOverlay(cash_flows, total_invested, cfg) ==
    LET max_day == IF cash_flows /= <<>> THEN MaxKey(cash_flows, Len(cash_flows))
                   ELSE DefaultMaxDay
        years_held == YearsHeld(max_day)
        gross_returned == SumValues(cash_flows, Len(cash_flows))
        leverage_amount == MulRate(total_invested, cfg.leverage_rate)
        total_capital == total_invested + leverage_amount
        leverage_cost == LeverageCost(leverage_amount, cfg, years_held)
        management_fees == ManagementFees(total_capital, cfg, years_held)
        carry_paid == CarryPaid(gross_returned,
                                HurdleReturn(total_capital, cfg, years_held),
                                total_capital, cfg)
        net_returned == gross_returned - leverage_cost - management_fees - carry_paid
    IN [leverage_cost |-> leverage_cost, fees_paid |-> management_fees,
        carry_paid |-> carry_paid, total_returned |-> net_returned,
        moic |-> calculate_moic(net_returned, total_invested)]

\* C18: reconstruct_net_performance applies the overlay of the driver: for
\* the same gross schedule, invested capital and configuration it gives the
\* leverage_cost, fees_paid, carry_paid, total_returned and moic of
\* run_single_simulation with apply_costs=True; one net result per gross
\* result, in order and with the same simulation_id; the gross results,
\* their details and their schedules are left as they were.
C18_SameOverlay ==
    calc_op = "reconstruct_net_performance" =>
        LET gross == calc_args.gross_results
            net == calc_out.net_results
        IN /\ calc_out.raised = "none"
           /\ Len(net) = Len(gross)
           /\ calc_out.gross_results = gross
           /\ \A i \in DOMAIN net :
                LET driver == DriverOverlay(gross[i].cash_flow_schedule,
                                            gross[i].total_invested, calc_args.config)
                IN /\ net[i].simulation_id = gross[i].simulation_id
                   /\ net[i].investment_details = gross[i].investment_details
                   /\ net[i].cash_flow_schedule = gross[i].cash_flow_schedule
                   /\ net[i].leverage_cost = driver.leverage_cost
                   /\ net[i].fees_paid = driver.fees_paid
                   /\ net[i].carry_paid = driver.carry_paid
                   /\ net[i].total_returned = driver.total_returned
                   /\ net[i].moic = driver.moic

\* two gross results are taken to net with leverage, carry charged on one of
\* them over a holding period other than one year
C18_Witness ==
    /\ calc_op = "reconstruct_net_performance"
    /\ calc_out.raised = "none"
    /\ Len(calc_out.net_results) = 2
    /\ calc_args.config.leverage_rate > 0
    /\ \E i \in DOMAIN calc_out.net_results :
          /\ calc_out.net_results[i].carry_paid > 0
          /\ calc_out.net_results[i].leverage_cost > 0
          /\ \E k \in DOMAIN calc_out.net_results[i].cash_flow_schedule :
                calc_out.net_results[i].cash_flow_schedule[k].day > DaysPerYear + 1

(***************************************************************************)
(* beta_simulation.py: _draw_norm_with_exact_moments.  Deviates and        *)
(* returns are in units of 1e-4.                                           *)
(***************************************************************************)
\* np.random.default_rng(seed)
default_rng(seed) == seed % RandomModulus

\* the largest r with r * r <= x, for x >= 0, searched in lo..hi-1
RECURSIVE SqrtBetween(_, _, _)
SqrtBetween(x, lo, hi) ==
    IF hi - lo <= 1 THEN lo
    ELSE The({ IF mid <= x \div mid THEN SqrtBetween(x, mid, hi)
               ELSE SqrtBetween(x, lo, mid) : mid \in { (lo + hi) \div 2 } })
IntSqrt(x) == SqrtBetween(x, 0, (IF x < 2^16 THEN x ELSE 2^16) + 1)

\* np.abs(rng.standard_normal(m)): [value, state]; a magnitude is a positive
\* number of hundredths, up to three standard deviations
MaxMagnitudeSteps == 300
RECURSIVE HalfNormals(_, _)
HalfNormals(m, state) ==
    IF m = 0 THEN [value |-> <<>>, state |-> state]
    ELSE The({ [value |-> <<Hundredth
                              * (((NextRandom(state) \div 7) % MaxMagnitudeSteps) + 1)>>
                           \o rest.value,
                state |-> rest.state] :
               rest \in { HalfNormals(m - 1, NextRandom(state)) } })

Swap(z, i, j) == [z EXCEPT ![i] = z[j], ![j] = z[i]]

\* rng.shuffle(z): positions i = n, n-1, .., 2 are exchanged with a drawn
\* position at or below them
RECURSIVE Shuffle(_, _, _)
Shuffle(z, i, state) ==
    IF i < 2 THEN z
    ELSE Shuffle(Swap(z, i, ((NextRandom(state) \div 11) % i) + 1), i - 1,
                 NextRandom(state))

\* np.mean(z**2), in squared units
RECURSIVE MeanSquare(_, _)
MeanSquare(z, i) ==
    IF i = 0 THEN 0 ELSE MeanSquare(z, i - 1) + (z[i] * z[i]) \div Len(z)

\* np.sqrt(np.mean(z**2)); the mean of an empty array is nan
RootMeanSquare(z) ==
    IF Len(z) = 0 THEN NaN ELSE IntSqrt(MeanSquare(z, Len(z)))

\* x / d on arrays: 0 / 0 is nan and x / 0 is infinite, with a warning only
ArrayDiv(x, d) ==
    IF x = NaN \/ d = NaN THEN NaN
    ELSE IF d = 0 THEN (IF x = 0 THEN NaN ELSE Sgn(x) * MaxFloat)
    ELSE DivScaled(x, d)

\* mean + sigma * z
Shifted(mean, sigma, z) ==
    IF z = NaN \/ sigma = NaN \/ mean = NaN THEN NaN
    ELSE IF IsInf(z) THEN (IF sigma = 0 THEN NaN ELSE Sgn(sigma) * z)
    ELSE FAdd(mean, MulRate(sigma, z))

\* if n_paths % 2 == 1: z = np.concatenate([z, np.array([0.0])])
CentralZero(z, n_paths) ==
    IF n_paths % 2 = 1 THEN z \o <<0>> ELSE z

\* _draw_norm_with_exact_moments: the array returned
draw_norm_with_exact_moments(n_paths, mean, sigma, seed) ==
    The({ The({ The({
        [i \in DOMAIN z |-> Shifted(mean, sigma, ArrayDiv(z[i], rms))] :
        rms \in { RootMeanSquare(z) } }) :
        z \in { Shuffle(CentralZero([i \in DOMAIN a.value |-> -a.value[i]] \o a.value,
                                    n_paths),
                        n_paths, a.state) } }) :
        a \in { HalfNormals(n_paths \div 2, default_rng(seed)) } })

(***************************************************************************)
(* beta_simulation.py: calculate_historical_statistics and                 *)
(* simulate_beta_forward.  The daily growth factor of a path is kept in    *)
(* units of 1e-8, prices in cents.                                         *)
(***************************************************************************)
FineScale == RateScale * RateScale

\* a * b / FineScale for factors at FineScale, MaxFloat once out of range:
\* the product is taken on the halves of a and b above and below RateScale
FineMul(a, b) ==
    IF a = NaN \/ b = NaN THEN NaN
    ELSE IF a = 0 \/ b = 0 THEN 0
    ELSE IF a \div RateScale >= MaxFloat \div (b \div RateScale + 1) THEN MaxFloat
    ELSE LET a1 == a \div RateScale
             a0 == a % RateScale
             b1 == b \div RateScale
             b0 == b % RateScale
         IN Clip(a1 * b1 + (a1 * b0) \div RateScale + (a0 * b1) \div RateScale
                   + (((a1 * b0) % RateScale) + ((a0 * b1) % RateScale)
                        + (a0 * b0) \div RateScale) \div RateScale)

RECURSIVE FinePower(_, _)
FinePower(base, n) ==
    IF n = 0 THEN FineScale
    ELSE The({ IF n % 2 = 1 THEN FineMul(FineMul(half, half), base)
               ELSE FineMul(half, half) :
               half \in { FinePower(base, n \div 2) } })

\* the largest k in lo..hi-1 with (k * step) ** n <= x, given that lo is one
RECURSIVE FineRootBetween(_, _, _, _, _)
FineRootBetween(x, n, lo, hi, step) ==
    IF hi - lo <= 1 THEN lo
    ELSE The({ IF FinePower(mid * step, n) <= x
               THEN FineRootBetween(x, n, mid, hi, step)
               ELSE FineRootBetween(x, n, lo, mid, step) :
               mid \in { (lo + hi) \div 2 } })

\* x ** (1 / n) at FineScale: to the nearest RateScale below, then to the unit
FineRoot(x, n) ==
    The({ FineRootBetween(x, n, coarse * RateScale, (coarse + 1) * RateScale, 1) :
          coarse \in { FineRootBetween(x, n, 0, MaxFloat \div RateScale + 1, RateScale) } })

\* freq_map.get(beta_index.frequency, 12)
PeriodsPerYear(frequency) ==
    IF frequency = "daily" THEN 252
    ELSE IF frequency = "weekly" THEN 52
    ELSE IF frequency = "monthly" THEN 12
    ELSE IF frequency = "quarterly" THEN 4
    ELSE IF frequency = "annual" THEN 1
    ELSE 12

\* (prices[i].price / prices[i-1].price) - 1 for i = 1 .. len(prices) - 1
PeriodReturns(prices) ==
    [i \in 1..(Len(prices) - 1) |->
        MulDivMod(prices[i + 1].price, RateScale, prices[i].price)[1] - RateScale]

RECURSIVE SumSeq(_, _)
SumSeq(xs, i) == IF i = 0 THEN 0 ELSE SumSeq(xs, i - 1) + xs[i]

RECURSIVE SumSquaredDeviations(_, _, _)
SumSquaredDeviations(xs, centre, i) ==
    IF i = 0 THEN 0
    ELSE SumSquaredDeviations(xs, centre, i - 1) + (xs[i] - centre) * (xs[i] - centre)

\* np.std(returns_array, ddof=1): nan for fewer than two returns
SampleStd(returns) ==
    IF Len(returns) < 2 THEN NaN
    ELSE LET centre == Sgn(SumSeq(returns, Len(returns)))
                          * (FAbs(SumSeq(returns, Len(returns))) \div Len(returns))
         IN IntSqrt(SumSquaredDeviations(returns, centre, Len(returns))
                        \div (Len(returns) - 1))

\* calculate_historical_statistics: [raised, annual_return, annual_volatility,
\* period_count, frequency]
calculate_historical_statistics(beta_index) ==
    LET prices == beta_index.prices
        Refuse(error) == [raised |-> error, annual_return |-> 0, annual_volatility |-> 0,
                          period_count |-> 0, frequency |-> beta_index.frequency]
        days == prices[Len(prices)].date - prices[1].date
    IN IF prices = <<>> THEN Refuse("IndexError")
       ELSE IF prices[1].price = 0 \/ days = 0 THEN Refuse("ZeroDivisionError")
       ELSE The({ The({
              IF annual_return.raised /= "none" THEN Refuse(annual_return.raised)
              ELSE [raised |-> "none",
                    annual_return |-> annual_return.value,
                    annual_volatility |->
                        IF periodic_std = NaN THEN NaN
                        ELSE MulRate(periodic_std,
                                     IntSqrt(PeriodsPerYear(beta_index.frequency)
                                                * 10^6) * 10),
                    period_count |-> Len(prices) - 1,
                    frequency |-> beta_index.frequency] :
              periodic_std \in { SampleStd(PeriodReturns(prices)) } }) :
              annual_return \in { Annualized(MulDivMod(prices[Len(prices)].price,
                                                       RateScale, prices[1].price)[1],
                                             days) } })

\* outlook_modifiers, confidence_modifiers
OutlookModifier(outlook) ==
    IF outlook = "pessimistic" THEN -1000 ELSE IF outlook = "base" THEN 0 ELSE 1000
ConfidenceModifier(confidence) ==
    IF confidence = "low" THEN 15000 ELSE IF confidence = "medium" THEN 10000 ELSE 5000

\* 1 + daily_return at FineScale, for a terminal annual return: the two
\* powers (1 + r) ** (horizon_days / 252) and ** (1 / horizon_days) taken
\* together, the 252nd root of 1 + r; nan for a nan or negative base
TradingDaysPerYear == 252
DailyGrowth(terminal_return) ==
    IF terminal_return = NaN \/ terminal_return < -RateScale THEN NaN
    ELSE IF RateScale + terminal_return >= MaxFloat \div RateScale THEN MaxFloat
    ELSE FineRoot((RateScale + terminal_return) * (FineScale \div RateScale),
                  TradingDaysPerYear)

\* the prices of a path after start_price, day by day: the first n + more of
\* them, given the first n
RECURSIVE Compound(_, _, _, _)
Compound(prices, current_price, growth, more) ==
    IF more = 0 THEN prices
    ELSE IF more = 1
    THEN Append(prices, FineMul(current_price, growth))
    ELSE The({ Compound(first, first[Len(first)], growth, more - more \div 2) :
               first \in { Compound(prices, current_price, growth, more \div 2) } })

\* a date axis of horizon_days consecutive calendar days
ConsecutiveDays(start_date, horizon_days) ==
    [i \in 1..horizon_days |-> start_date + i]

\* end_date = start_date + int(horizon_days / 252 * 365.25) days, and
\* pd.date_range(start_date + 1 day, end_date, periods=horizon_days) in whole
\* days
DateAxis(start_date, horizon_days) ==
    LET end_date == start_date + (horizon_days * 1461) \div (4 * TradingDaysPerYear)
    IN [i \in 1..horizon_days |->
          IF horizon_days = 1 THEN start_date + 1
          ELSE start_date + 1
                 + MulDivMod(i - 1, end_date - (start_date + 1), horizon_days - 1)[1]]

\* simulate_beta_forward: [raised, dates, paths, diagnostics]; of the
\* diagnostics the parameters are kept, not the terminal statistics
simulate_beta_forward(beta_index, horizon_days, n_paths, seed, outlook, confidence) ==
    The({
      IF hist_stats.raised /= "none"
      THEN [raised |-> hist_stats.raised, dates |-> <<>>, paths |-> <<>>,
            diagnostics |-> <<>>]
      ELSE IF horizon_days = 0 /\ n_paths > 0
      THEN [raised |-> "ZeroDivisionError", dates |-> <<>>, paths |-> <<>>,
            diagnostics |-> <<>>]
      ELSE LET r_target == FAdd(hist_stats.annual_return, OutlookModifier(outlook))
               s_target == IF hist_stats.annual_volatility = NaN THEN NaN
                           ELSE MulRate(hist_stats.annual_volatility,
                                        ConfidenceModifier(confidence))
               start_price == beta_index.prices[Len(beta_index.prices)].price
               start_date == beta_index.prices[Len(beta_index.prices)].date
           IN The({
                [raised |-> "none",
                 dates |-> DateAxis(start_date, horizon_days),
                 paths |-> [i \in DOMAIN terminal_annual_returns |->
                              The({ Compound(<<>>, start_price, growth, horizon_days) :
                                    growth \in { DailyGrowth(terminal_annual_returns[i]) } })],
                 diagnostics |->
                    [frequency |-> hist_stats.frequency,
                     n_observations |-> hist_stats.period_count,
                     mu_hist_annual |-> hist_stats.annual_return,
                     sigma_hist_annual |-> hist_stats.annual_volatility,
                     outlook |-> outlook, confidence |-> confidence,
                     R_view |-> r_target, sigma_view |-> s_target,
                     n_paths |-> n_paths, horizon_days |-> horizon_days,
                     start_price |-> start_price, start_date |-> start_date]] :
                terminal_annual_returns \in
                    { draw_norm_with_exact_moments(n_paths, r_target, s_target, seed) } }) :
      hist_stats \in { calculate_historical_statistics(beta_index) } })

(***************************************************************************)
(* SpecForward: terminal returns are drawn, and beta paths are simulated   *)
(* forward from an index.                                                  *)
(***************************************************************************)
MaxPaths == 5
DrawMeans == {-500, 0, 1000}
DrawSigmas == {0, 1500, 3000}

\* monthly, as MonthlyIndex; daily over two months with a fall and a rise
ForwardIndexes ==
    { MonthlyIndex,
      PriceIndex("daily", <<BetaPrice(10, 10000), BetaPrice(11, 9900),
                            BetaPrice(12, 10100), BetaPrice(70, 10300)>>) }
Horizons == {0, 1, 2, 3, TradingDaysPerYear, 2 * TradingDaysPerYear}
ForwardPaths == {1, 2, 3}
ForwardSeeds == {0, Seed}
Views == { <<"base", "medium">>, <<"pessimistic", "low">>, <<"optimistic", "high">> }

CallDrawNorm ==
    /\ calc_op = "idle"
    /\ \E n_paths \in 0..MaxPaths, mean \in DrawMeans, sigma \in DrawSigmas,
          seed \in 0..MaxGeneratorState :
          /\ calc_op' = "_draw_norm_with_exact_moments"
          /\ calc_args' = [n_paths |-> n_paths, mean |-> mean, sigma |-> sigma,
                           seed |-> seed]
          /\ calc_out' = draw_norm_with_exact_moments(n_paths, mean, sigma, seed)
    /\ UNCHANGED <<irrVars, simVars>>

CallSimulateBetaForward ==
    /\ calc_op = "idle"
    /\ \E index \in ForwardIndexes, horizon_days \in Horizons, n_paths \in ForwardPaths,
          seed \in ForwardSeeds, view \in Views :
          /\ calc_op' = "simulate_beta_forward"
          /\ calc_args' = [beta_index |-> index, horizon_days |-> horizon_days,
                           n_paths |-> n_paths, seed |-> seed,
                           outlook |-> view[1], confidence |-> view[2]]
          /\ calc_out' = simulate_beta_forward(index, horizon_days, n_paths, seed,
                                               view[1], view[2])
    /\ UNCHANGED <<irrVars, simVars>>

ForwardNext == CallDrawNorm \/ CallSimulateBetaForward \/ CalcReturn

SpecForward == CalcInit /\ [][ForwardNext]_vars

\* sample statistics of an array of returns: the sum of the deviations from
\* a centre, twice the median, and the standard deviation about the centre
SumDeviations(values, centre) ==
    SumSeq([i \in DOMAIN values |-> values[i] - centre], Len(values))
TwiceMedian(values) ==
    LET sorted == SortSeq(values, LAMBDA x, y : x < y)
        n == Len(values)
    IN IF n % 2 = 1 THEN 2 * sorted[(n + 1) \div 2]
       ELSE sorted[n \div 2] + sorted[n \div 2 + 1]
StdAbout(values, centre) ==
    IntSqrt(SumSquaredDeviations(values, centre, Len(values)) \div Len(values))
\* what the grid of 1e-4 loses in the rescaling: one percent and two units
StdSlack(sigma) == sigma \div 100 + 2

\* C19: for any n_paths >= 1 the n_paths terminal returns drawn by
\* _draw_norm_with_exact_moments have sample mean and sample median equal
\* to the target mean and sample standard deviation equal to the target
\* sigma.
C19_ExactMoments ==
    calc_op = "_draw_norm_with_exact_moments" =>
        /\ Len(calc_out) = calc_args.n_paths
        /\ calc_args.n_paths >= 1 =>
              /\ \A i \in DOMAIN calc_out : calc_out[i] /= NaN
              /\ SumDeviations(calc_out, calc_args.mean) = 0
              /\ TwiceMedian(calc_out) = 2 * calc_args.mean
              /\ FAbs(StdAbout(calc_out, calc_args.mean) - calc_args.sigma)
                    <= StdSlack(calc_args.sigma)

\* C20: the date axis of simulate_beta_forward has exactly horizon_days
\* dates, starts one day after the last historical observation and ends at
\* that observation's date plus int(horizon_days / 252 x 365.25) days; a
\* horizon of 252 x k trading days spans k calendar years, never only
\* 252 x k calendar days.
C20_CalendarAxis ==
    (calc_op = "simulate_beta_forward" /\ calc_out.raised = "none") =>
        LET h == calc_args.horizon_days
            prices == calc_args.beta_index.prices
            last_observation == prices[Len(prices)].date
            dates == calc_out.dates
        IN /\ Len(dates) = h
           /\ \A i \in DOMAIN calc_out.paths : Len(calc_out.paths[i]) = h
           /\ h >= 1 =>
                /\ dates[1] = last_observation + 1
                /\ dates[h] = last_observation + (h * 36525) \div (252 * 100)
                /\ \A i \in 1..(h - 1) : dates[i] <= dates[i + 1]
                /\ \A k \in 1..2 :
                      h = 252 * k =>
                         /\ dates[h] - last_observation = (k * 1461) \div 4
                         /\ dates[h] - last_observation > h

\* two trading years are simulated and end 730 days after the index
C20_Witness ==
    /\ calc_op = "simulate_beta_forward"
    /\ calc_out.raised = "none"
    /\ calc_args.horizon_days = 2 * TradingDaysPerYear
    /\ calc_args.n_paths >= 2
    /\ Len(calc_out.dates) = 2 * TradingDaysPerYear
    /\ calc_out.dates[2 * TradingDaysPerYear]
          = calc_args.beta_index.prices[Len(calc_args.beta_index.prices)].date + 730

(***************************************************************************)
(* The heuristic floor of calculate_irr_robust (calculators.py:283-293).   *)
(***************************************************************************)
\* sum(cash_flows.values()) of the schedule being solved
TotalCashFlows == SumSeq([i \in DOMAIN irr_cash_flows |-> irr_cash_flows[i].amount],
                         Len(irr_cash_flows))

\* C23: when every solving strategy of calculate_irr_robust was rejected, the
\* pair returned depends on the total of the cash flows alone: (-0.9999, False)
\* for a negative total, otherwise (-0.75, False) for a total below half of the
\* initial investment, otherwise (0.0, False); exactly one of the three applies.
C23_FloorFromTotal ==
    (irr_log /= <<>> /\ Last(irr_log).stage = "floor")
       => /\ irr_status = "returned"
          /\ \A i \in 1..(Len(irr_log) - 1) : irr_log[i].outcome \in {"rejected", "caught"}
          /\ irr_result.converged = FALSE
          /\ irr_result.rate \in {-9999, -7500, 0}
          /\ irr_result.rate = -9999 <=> TotalCashFlows < 0
          /\ irr_result.rate = -7500
                <=> (TotalCashFlows >= 0 /\ 2 * TotalCashFlows < irr_initial)
          /\ irr_result.rate = 0
                <=> (TotalCashFlows >= 0 /\ 2 * TotalCashFlows >= irr_initial)

\* the floor returned -0.75: a non-negative total below half of the investment
C23_Witness ==
    /\ irr_status = "returned"
    /\ irr_log /= <<>> /\ Last(irr_log).stage = "floor"
    /\ irr_result = [rate |-> -7500, converged |-> FALSE]
    /\ TotalCashFlows >= 0 /\ 2 * TotalCashFlows < irr_initial

(***************************************************************************)
(* SpecBisection: one call of calculate_irr_bisection, one loop iteration  *)
(* per step (calculators.py:168-201).  calc_out is the list of brackets:   *)
(* the one the call starts from, then the one each iteration leaves.       *)
(***************************************************************************)
BisectionSchedules == IrrSchedules \cup { <<CF(365, 1)>>, <<CF(365, 2)>> }
BisectionInitials == IrrInitials \cup { 10000 }
BisectionLimits == {3, MaxIterations}

CallBisection ==
    /\ calc_op = "idle"
    /\ \E cash_flows \in BisectionSchedules, initial_investment \in BisectionInitials,
          max_iterations \in BisectionLimits :
          /\ calc_op' = "calculate_irr_bisection"
          /\ calc_args' = [cash_flows |-> cash_flows,
                           initial_investment |-> initial_investment,
                           max_iterations |-> max_iterations, tolerance |-> Tolerance]
          /\ calc_out' = << BisectionStart(cash_flows, initial_investment) >>
    /\ UNCHANGED <<irrVars, simVars>>

\* for _ in range(max_iterations): one pass through the loop body
BisectionLoop ==
    /\ calc_op = "calculate_irr_bisection"
    /\ Last(calc_out).status = "loop"
    /\ Len(calc_out) - 1 < calc_args.max_iterations
    /\ calc_out' = Append(calc_out,
                          BisectionStep(calc_args.cash_flows, calc_args.initial_investment,
                                        Last(calc_out), calc_args.tolerance))
    /\ UNCHANGED <<calc_op, calc_args, irrVars, simVars>>

\* the loop ran out: return (lower + upper) / 2.0
BisectionBestEstimate ==
    /\ calc_op = "calculate_irr_bisection"
    /\ Last(calc_out).status = "loop"
    /\ Len(calc_out) - 1 = calc_args.max_iterations
    /\ calc_out' = Append(calc_out,
                          [Last(calc_out) EXCEPT !.status = "returned", !.how = "iterations",
                              !.rate = Half(Last(calc_out).lower + Last(calc_out).upper)])
    /\ UNCHANGED <<calc_op, calc_args, irrVars, simVars>>

BisectionReturn ==
    /\ calc_op = "calculate_irr_bisection"
    /\ Last(calc_out).status /= "loop"
    /\ CalcReturn

BisectionNext == CallBisection \/ BisectionLoop \/ BisectionBestEstimate \/ BisectionReturn

SpecBisection == CalcInit /\ [][BisectionNext]_vars

\* the NPV of the schedule of the call at rate
BracketNpv(rate) == verify_npv(rate, calc_args.cash_flows, calc_args.initial_investment)

\* the two NPVs are not of the same strict sign
NotSameStrictSign(a, b) == ~(FLess(0, a) /\ FLess(0, b)) /\ ~(FLess(a, 0) /\ FLess(b, 0))

\* C24: in calculate_irr_bisection, when the NPVs at -0.9999 and 10.0 are not
\* of the same strict sign, every iteration leaves a bracket whose end-point
\* NPVs are not of the same strict sign (an NPV of exactly zero at a bound
\* included) and whose width is half of the width before; when they are of the
\* same sign the bound with the smaller |NPV| is returned without iterating.
C24_BracketKept ==
    calc_op = "calculate_irr_bisection"
       => \E nl \in { BracketNpv(LowerRate) }, nu \in { BracketNpv(UpperRate) } :
             (nl.raised = "none" /\ nu.raised = "none")
                => IF NotSameStrictSign(nl.npv, nu.npv)
                   THEN \A i \in DOMAIN calc_out :
                           calc_out[i].status = "loop"
                              => /\ NotSameStrictSign(BracketNpv(calc_out[i].lower).npv,
                                                      BracketNpv(calc_out[i].upper).npv)
                                 /\ i > 1 =>
                                      (calc_out[i].upper - calc_out[i].lower)
                                         \in { (calc_out[i - 1].upper - calc_out[i - 1].lower) \div 2,
                                               (calc_out[i - 1].upper - calc_out[i - 1].lower + 1) \div 2 }
                   ELSE /\ Len(calc_out) = 1
                        /\ calc_out[1].status = "returned"
                        /\ calc_out[1].rate = (IF FLess(FAbs(nl.npv), FAbs(nu.npv))
                                               THEN LowerRate ELSE UpperRate)

(***************************************************************************)
(* SpecToggles: two calls of run_monte_carlo_simulation on one universe    *)
(* and configuration, each with its own beta_index, apply_costs, use_alpha *)
(* and export_details; universes of one investment are among the inputs.   *)
(***************************************************************************)
ToggleUniverses == { <<InvA>>, <<InvA, InvE, InvN>> }
ToggleConfigurations == { Configuration(1, 0, 0, 0), Configuration(2, 1, 5000, 800) }
ToggleArguments ==
    { a \in [beta_index : {None, BetaPriceIndex(150, 2000)}, apply_costs : BOOLEAN,
             use_alpha : BOOLEAN, export_details : BOOLEAN] :
        a.beta_index /= None => a.use_alpha }

TogglesInit ==
    /\ investments \in ToggleUniverses
    /\ config \in ToggleConfigurations
    /\ calls \in [1..2 -> ToggleArguments]
    /\ call = 0
    /\ phase = "idle"
    /\ random_state = 0
    /\ simulation_id = 0
    /\ draw = NoDraw
    /\ results = <<<<>>, <<>>>>
    /\ outcome = <<"pending", "pending">>
    /\ progress = <<NoCallback, NoCallback>>
    /\ IrrIdle /\ CalcIdle

SpecToggles == TogglesInit /\ [][SimNext]_vars

\* C22: for a universe holding a single investment, every draw selects that
\* investment n >= 1 times whatever portfolio size is generated, and with
\* apply_costs=False the MOIC of every result is that investment's MOIC.
C22_SingleInvestment ==
    Len(investments) = 1
       => \A c \in DOMAIN results : \A i \in DOMAIN results[c] :
             /\ results[c][i].investment_count >= 1
             /\ Len(results[c][i].investments_selected) = results[c][i].investment_count
             /\ \A k \in DOMAIN results[c][i].investments_selected :
                   results[c][i].investments_selected[k] = investments[1].investment_name
             /\ ~calls[c].apply_costs => results[c][i].moic = investments[1].moic

\* C25: in every SimulationResult of run_single_simulation total_invested is
\* investment_count x 1,000,000, and investments_selected names exactly the
\* investments whose exit cash flows were posted to the schedule.
C25_InvestedAndPosted ==
    draw.step = "emitted"
       => /\ Last(results[call]).total_invested
                = Last(results[call]).investment_count * InvestmentAmount
          /\ Last(results[call]).investments_selected
                = [k \in DOMAIN draw.posted |->
                      draw.selected_investments[draw.posted[k]].investment_name]

\* C26: for the same universe and configuration, iteration i of
\* run_monte_carlo_simulation selects the same investments under every
\* combination of apply_costs, use_alpha and export_details (and with or
\* without a beta index): the draws do not depend on the toggles.
C26_DrawsIgnoreToggles ==
    /\ \A i \in DOMAIN results[1] \cap DOMAIN results[2] :
          /\ results[1][i].investments_selected = results[2][i].investments_selected
          /\ results[1][i].investment_count = results[2][i].investment_count
    /\ (call = 2 /\ draw.step \in {"selected", "built", "returns", "resolved"}
           /\ simulation_id + 1 \in DOMAIN results[1])
          => results[1][simulation_id + 1].investments_selected
                = Names(draw.selected_investments, Len(draw.selected_investments))

\* a gross run with details and a net run without, in alpha mode, both
\* returned, on portfolios of more than one investment
C26_Witness ==
    /\ outcome = <<"returned", "returned">>
    /\ calls[1].apply_costs /= calls[2].apply_costs
    /\ calls[1].use_alpha /= calls[2].use_alpha
    /\ calls[1].export_details /= calls[2].export_details
    /\ Len(results[1]) = MaxSimulations /\ Len(results[2]) = MaxSimulations
    /\ results[1][1].investment_details /= results[2][1].investment_details
    /\ results[1][1].moic /= results[2][1].moic
    /\ \E i \in DOMAIN results[1] : results[1][i].investment_count > 1

(***************************************************************************)
(* beta_import.py: validate_beta_coverage, and SpecCoverage, in which an   *)
(* investment list is validated against an index and then decomposed       *)
(* against it, as the application does.                                    *)
(***************************************************************************)
\* beta_start = min(midpoints), beta_end = max(midpoints), for a non-empty index
BetaRange(index) ==
    LET dates == { Midpoints(index)[i].date : i \in DOMAIN index.prices }
    IN << CHOOSE d \in dates : \A e \in dates : d <= e,
          CHOOSE d \in dates : \A e \in dates : d >= e >>

\* the error messages of the loop from investment i on: one for an entry date
\* before beta_start, one for a latest date after beta_end
RECURSIVE CoverageErrorsFrom(_, _, _, _)
CoverageErrorsFrom(investment_list, range, i, errors) ==
    IF i > Len(investment_list) THEN errors
    ELSE LET inv == investment_list[i]
             entry_error == IF inv.entry_date < range[1]
                            THEN << [about |-> inv.investment_name, date |-> "entry"] >>
                            ELSE <<>>
             latest_error == IF inv.latest_date > range[2]
                             THEN << [about |-> inv.investment_name, date |-> "latest"] >>
                             ELSE <<>>
         IN CoverageErrorsFrom(investment_list, range, i + 1,
                               errors \o entry_error \o latest_error)

\* validate_beta_coverage: [is_valid, errors]
validate_beta_coverage(investment_list, beta_index) ==
    IF beta_index.prices = <<>>
    THEN [is_valid |-> FALSE, errors |-> << [about |-> "", date |-> "no price data"] >>]
    ELSE The({ [is_valid |-> errors = <<>>,
                errors |-> IF errors /= <<>> /\ investment_list /= <<>>
                           THEN errors \o << [about |-> "", date |-> "needed"],
                                             [about |-> "", date |-> "available"] >>
                           ELSE errors] :
               errors \in { CoverageErrorsFrom(investment_list, BetaRange(beta_index),
                                               1, <<>>) } })

CallValidateCoverage ==
    /\ calc_op = "idle"
    /\ \E universe \in BetaUniverses, index \in PriceIndexes,
          beta_exposure \in BetaExposures :
          /\ calc_op' = "validate_beta_coverage"
          /\ calc_args' = [investments |-> universe, beta_index |-> index,
                           beta_exposure |-> beta_exposure]
          /\ calc_out' = [validation |-> validate_beta_coverage(universe, index)]
    /\ UNCHANGED <<irrVars, simVars>>

\* the alpha run of the application decomposes the validated list
DecomposeValidated ==
    /\ calc_op = "validate_beta_coverage"
    /\ calc_op' = "decompose_historical_beta"
    /\ calc_out' = [validation |-> calc_out.validation,
                    decomposition |->
                        decompose_historical_beta(calc_args.investments, calc_args.beta_index,
                                                  calc_args.beta_exposure)]
    /\ UNCHANGED <<calc_args, irrVars, simVars>>

CoverageReturn ==
    /\ calc_op = "decompose_historical_beta"
    /\ CalcReturn

CoverageNext == CallValidateCoverage \/ DecomposeValidated \/ CoverageReturn

SpecCoverage == CalcInit /\ [][CoverageNext]_vars

\* the loop of the decomposer skips inv
Skips(inv) ==
    DecomposeOne(inv, calc_args.beta_index, calc_args.beta_exposure).raised = "ValueError"

\* validate_beta_coverage reported an error for inv: one naming it, or the
\* error of an index without prices
ReportedFor(inv) ==
    \E k \in DOMAIN calc_out.validation.errors :
       \/ calc_out.validation.errors[k].about = inv.investment_name
       \/ calc_out.validation.errors[k].date = "no price data"

EntryBeforeExit == \A i \in DOMAIN calc_args.investments :
                      calc_args.investments[i].entry_date < calc_args.investments[i].latest_date

\* C27 as stated: for investments whose entry date is before their exit date,
\* validate_beta_coverage reports an error exactly when the decomposer skips
\* the investment, and is_valid is True exactly when no investment is skipped.
C27_Original ==
    (calc_op = "decompose_historical_beta" /\ EntryBeforeExit)
       => /\ \A i \in DOMAIN calc_args.investments :
                ReportedFor(calc_args.investments[i]) <=> Skips(calc_args.investments[i])
          /\ calc_out.validation.is_valid
                <=> \A i \in DOMAIN calc_args.investments : ~Skips(calc_args.investments[i])

\* C27 amended: for investments whose entry date is before their exit date,
\* validate_beta_coverage reports an error exactly when the decomposer skips
\* the investment; is_valid is True exactly when the index has prices and no
\* investment is skipped: an index without prices is invalid whatever the
\* list, the empty list included, of which nothing is skipped.
C27_ValidatorAgrees ==
    (calc_op = "decompose_historical_beta" /\ EntryBeforeExit)
       => /\ \A i \in DOMAIN calc_args.investments :
                ReportedFor(calc_args.investments[i]) <=> Skips(calc_args.investments[i])
          /\ calc_out.validation.is_valid
                <=> /\ calc_args.beta_index.prices /= <<>>
                    /\ \A i \in DOMAIN calc_args.investments :
                          ~Skips(calc_args.investments[i])
          /\ calc_out.decomposition.raised = "none"
                => (calc_out.decomposition.diagnostics.skipped_investments
                       = Cardinality({ i \in DOMAIN calc_args.investments :
                                         ReportedFor(calc_args.investments[i]) }))

\* a list was validated and decomposed: one investment was reported and
\* skipped, the two others were neither
C27_Witness ==
    /\ calc_op = "decompose_historical_beta"
    /\ EntryBeforeExit
    /\ calc_args.beta_index.prices /= <<>>
    /\ ~calc_out.validation.is_valid
    /\ calc_out.decomposition.raised = "none"
    /\ calc_out.decomposition.diagnostics.skipped_investments = 1
    /\ Len(calc_out.decomposition.alpha_investments) = 2
    /\ Cardinality({ i \in DOMAIN calc_args.investments :
                       ReportedFor(calc_args.investments[i]) }) = 1

(***************************************************************************)
(* beta_simulation_test_fixed.py: the forward simulation by block          *)
(* bootstrap, Brownian bridge and calibrated drift.  A generator is its    *)
(* state, as above; a function that draws returns the generator's new      *)
(* state with its value.  Log returns are whole numbers of 1e-4.           *)
(***************************************************************************)
\* rng.integers(0, high): [value, state], value in 0..high-1
Integers(high, state) ==
    [value |-> (NextRandom(state) \div 13) % high, state |-> NextRandom(state)]

\* circular[start:start + block_len] for circular = residuals ++ residuals:
\* positions start.. (counted from 0) up to the end of the doubled array
Block(residuals, start, block_len) ==
    LET circular == residuals \o residuals
        stop == IF start + block_len > Len(circular) THEN Len(circular)
                ELSE start + block_len
    IN [i \in 1..(stop - start) |-> circular[start + i]]

\* while len(sampled) < n_samples: draw a start, extend sampled by the block;
\* starts lists the starting points drawn.  A loop whose block is empty makes
\* no progress and never returns
RECURSIVE BootstrapLoop(_, _, _, _, _, _)
BootstrapLoop(residuals, n_samples, block_len, sampled, state, starts) ==
    IF Len(sampled) >= n_samples
    THEN [raised |-> "none", value |-> SubSeq(sampled, 1, n_samples), state |-> state,
          starts |-> starts]
    ELSE The({ IF Block(residuals, start.value, block_len) = <<>>
               THEN [raised |-> "never returns", value |-> <<>>, state |-> start.state,
                     starts |-> Append(starts, start.value)]
               ELSE BootstrapLoop(residuals, n_samples, block_len,
                                  sampled \o Block(residuals, start.value, block_len),
                                  start.state, Append(starts, start.value)) :
               start \in { Integers(Len(residuals), state) } })

\* circular_block_bootstrap: [raised, value, state, starts]
circular_block_bootstrap(residuals, n_samples, block_len, state) ==
    IF Len(residuals) = 0
    THEN [raised |-> "ValueError", value |-> <<>>, state |-> state, starts |-> <<>>]
    ELSE BootstrapLoop(residuals, n_samples, block_len, <<>>, state, <<>>)

MaxSamples == 5
MaxBlockLen == 5
ResidualArrays == { <<>>, <<7>>, <<5, -3>>, <<4, -6, 2>> }

CallBootstrap ==
    /\ calc_op = "idle"
    /\ \E residuals \in ResidualArrays, n_samples \in 0..MaxSamples,
          block_len \in 0..MaxBlockLen, state \in 0..MaxGeneratorState :
          /\ calc_op' = "circular_block_bootstrap"
          /\ calc_args' = [residuals |-> residuals, n_samples |-> n_samples,
                           block_len |-> block_len, state |-> state]
          /\ calc_out' = circular_block_bootstrap(residuals, n_samples, block_len, state)
    /\ UNCHANGED <<irrVars, simVars>>

\* a run of block_len consecutive residuals from position start (counted
\* from 0), going from the last residual on to the first
WrappedRun(residuals, start, block_len) ==
    [i \in 1..block_len |-> residuals[((start + i - 1) % Len(residuals)) + 1]]
\* the runs from the first k starting points, one after the other
RECURSIVE Runs(_, _, _, _)
Runs(residuals, starts, block_len, k) ==
    IF k = 0 THEN <<>>
    ELSE Runs(residuals, starts, block_len, k - 1)
            \o WrappedRun(residuals, starts[k], block_len)

\* C29: circular_block_bootstrap returns, for non-empty residuals,
\* n_samples >= 0 and block_len >= 1, exactly n_samples values, which are
\* the first n_samples of the runs of block_len consecutive residuals, wrapped
\* from the last to the first, from the starting points drawn; on empty
\* residuals it raises
C29_WrappedBlocks ==
    calc_op = "circular_block_bootstrap" =>
        IF calc_args.residuals = <<>> THEN calc_out.raised = "ValueError"
        ELSE calc_args.block_len >= 1 =>
               /\ calc_out.raised = "none"
               /\ Len(calc_out.value) = calc_args.n_samples
               /\ calc_out.value
                     = SubSeq(Runs(calc_args.residuals, calc_out.starts,
                                   calc_args.block_len, Len(calc_out.starts)),
                              1, calc_args.n_samples)

\* the sum of f[a], .., f[b], by halves
RECURSIVE SumRange(_, _, _)
SumRange(f, a, b) ==
    IF a > b THEN 0
    ELSE IF a = b THEN f[a]
    ELSE SumRange(f, a, (a + b) \div 2) + SumRange(f, (a + b) \div 2 + 1, b)

\* the states of the generator over n draws, from state: n + 1 of them
RECURSIVE States(_, _)
States(state, n) ==
    IF n = 0 THEN << state >>
    ELSE IF n = 1 THEN << state, NextRandom(state) >>
    ELSE The({ first \o Tail(States(first[Len(first)], n - n \div 2)) :
               first \in { States(state, n \div 2) } })

\* rng.standard_normal(n): [value, state]; a deviate is a whole number of
\* half standard deviations (GaussUnit each), as for RandomState.normal
GaussUnit == RateScale \div 2
StandardNormals(n, state) ==
    The({ [value |-> Eager([t \in 1..n |-> Gauss(states[t])]),
           state |-> states[n + 1]] : states \in { States(state, n) } })

\* dB = np.diff([0, B]) for B = W - (t / n_steps) * W[-1], W = cumsum(z):
\* dB[t] = z[t] - W[-1] / n_steps, here n_steps times that
BridgeDifferences(z) ==
    Eager([t \in DOMAIN z |-> Len(z) * z[t] - SumRange(z, 1, Len(z))])

\* dB - dB.sum() / n_steps
Recentred(dB) ==
    Eager([t \in DOMAIN dB |-> dB[t] - SumRange(dB, 1, Len(dB)) \div Len(dB)])

\* dB.std() in units of 1e-4, for dB in n_steps-ths of a GaussUnit; the root
\* is searched up to the largest difference there can be, 6 n_steps
BridgeStd(dB) ==
    The({ (SqrtBetween(mean_square, 0, 6 * Len(dB) + 1) * GaussUnit) \div Len(dB) :
          mean_square \in { SumRange([t \in DOMAIN dB |-> dB[t] * dB[t]], 1, Len(dB))
                               \div Len(dB) } })

\* np.clip(alpha, 0.1, 10.0) for alpha = bridge_std / dB.std() (1.0 when the
\* deviation is not above 1e-8), in tenths
BridgeScale == 10
AlphaTenths(bridge_std, std) ==
    LET alpha == IF std > 0 THEN (2 * BridgeScale * bridge_std + std) \div (2 * std)
                 ELSE BridgeScale
    IN IF alpha < 1 THEN 1 ELSE IF alpha > BridgeScale * BridgeScale
       THEN BridgeScale * BridgeScale ELSE alpha

\* brownian_bridge_increments: [raised, value, state]; an increment is a whole
\* number of 1e-4 / (BridgeScale * n_steps)
brownian_bridge_increments(n_steps, target_daily_vol, period_residual_std, state) ==
    LET bridge_var == target_daily_vol * target_daily_vol
                         - period_residual_std * period_residual_std
        bridge_std == IF bridge_var > 0
                      THEN SqrtBetween(bridge_var, 0, target_daily_vol + 1) ELSE 0
    IN IF n_steps = 1 THEN [raised |-> "none", value |-> <<0>>, state |-> state]
       ELSE IF bridge_std = 0
       THEN [raised |-> "none", value |-> [t \in 1..n_steps |-> 0], state |-> state]
       ELSE The({ The({
              IF SumRange(dB, 1, n_steps) /= 0
              THEN [raised |-> "AssertionError", value |-> <<>>, state |-> z.state]
              ELSE The({ [raised |-> "none",
                          value |-> Eager([t \in 1..n_steps |->
                                              alpha * dB[t] * GaussUnit]),
                          state |-> z.state] :
                         alpha \in { AlphaTenths(bridge_std, BridgeStd(dB)) } }) :
              dB \in { Recentred(BridgeDifferences(z.value)) } }) :
              z \in { StandardNormals(n_steps, state) } })

BridgeSteps == {1, 2, 3, 4, 21}
DailyVols == {0, 76, 113, 300}
PeriodStds == {0, 25, 113, 200}

CallBridge ==
    /\ calc_op = "idle"
    /\ \E n_steps \in BridgeSteps, target_daily_vol \in DailyVols,
          period_residual_std \in PeriodStds, state \in 0..MaxGeneratorState :
          /\ calc_op' = "brownian_bridge_increments"
          /\ calc_args' = [n_steps |-> n_steps, target_daily_vol |-> target_daily_vol,
                           period_residual_std |-> period_residual_std, state |-> state]
          /\ calc_out' = brownian_bridge_increments(n_steps, target_daily_vol,
                                                    period_residual_std, state)
    /\ UNCHANGED <<irrVars, simVars>>

\* np.exp(x) and np.log(x) on units of 1e-4.  exp by halving the argument
\* down to at most a half and a series of four terms; log by halving or
\* doubling the argument into [0.75, 1.5) and the series of atanh, with
\* 6931 for the logarithm of two
RECURSIVE ExpRate(_)
ExpRate(x) ==
    IF x = NaN THEN NaN
    ELSE IF x >= 21 * RateScale THEN MaxFloat
    ELSE IF x <= -10 * RateScale THEN 0
    ELSE IF x > RateScale \div 2 \/ x < -(RateScale \div 2)
    THEN The({ SatMul(h, h) : h \in { ExpRate(Half(x)) } })
    ELSE LET a == FAbs(x)
             t2 == (a * a) \div (2 * RateScale)
             t3 == (t2 * a) \div (3 * RateScale)
             t4 == (t3 * a) \div (4 * RateScale)
         IN RateScale + x + t2 + Sgn(x) * t3 + t4
RECURSIVE LnReduced(_, _)
LnReduced(m, k) ==
    IF m >= 15000 THEN LnReduced(m \div 2, k + 1)
    ELSE IF m < 7500 THEN LnReduced(2 * m, k - 1)
    ELSE LET y == Sgn(m - RateScale)
                    * ((FAbs(m - RateScale) * RateScale) \div (m + RateScale))
             y2 == (y * y) \div RateScale
             y3 == (y2 * y) \div RateScale
             y5 == (y2 * y3) \div RateScale
         IN k * 6931 + 2 * (y + y3 \div 3 + y5 \div 5)
LnRate(x) ==
    IF x = NaN \/ x < 0 THEN NaN
    ELSE IF x = 0 THEN -MaxFloat
    ELSE IF x >= MaxFloat THEN MaxFloat
    ELSE LnReduced(x, 0)

\* a * b for a rate b, and a times a whole number n >= 1, on floats
FMulRate(a, b) ==
    IF a = NaN \/ b = NaN THEN NaN
    ELSE IF (IsInf(a) /\ b = 0) \/ (a = 0 /\ IsInf(b)) THEN NaN
    ELSE IF IsInf(a) \/ IsInf(b) THEN Sgn(a) * Sgn(b) * MaxFloat
    ELSE Clip(MulRate(a, b))
FTimes(a, n) == IF a = NaN THEN NaN ELSE IF IsInf(a) THEN a ELSE Clip(a * n)

\* preprocess_prices: [raised, prices] with the observations in date order
preprocess_prices(beta_index) ==
    IF \E i \in DOMAIN beta_index.prices : beta_index.prices[i].price <= 0
    THEN [raised |-> "ValueError", prices |-> <<>>]
    ELSE [raised |-> "none",
          prices |-> SortSeq(beta_index.prices, LAMBDA p, q : p.date < q.date)]

\* infer_frequency: [freq, N_F] from the median gap in days; the median of no
\* gap is nan, which fails every comparison
infer_frequency(dates) ==
    LET gaps == [i \in 1..(Len(dates) - 1) |-> dates[i + 1] - dates[i]]
        twice == IF gaps = <<>> THEN NaN ELSE TwiceMedian(gaps)
    IN IF twice = NaN THEN [freq |-> "monthly", N_F |-> 21]
       ELSE IF twice <= 4 THEN [freq |-> "daily", N_F |-> 1]
       ELSE IF 40 <= twice /\ twice <= 80 THEN [freq |-> "monthly", N_F |-> 21]
       ELSE IF 120 <= twice /\ twice <= 200 THEN [freq |-> "quarterly", N_F |-> 63]
       ELSE IF twice >= 600 THEN [freq |-> "annual", N_F |-> 252]
       ELSE [freq |-> "monthly", N_F |-> 21]

\* np.log(prices_series / prices_series.shift(1)).dropna()
LogReturns(prices) ==
    Eager([i \in 1..(Len(prices) - 1) |->
             LnRate((prices[i + 1].price * RateScale) \div prices[i].price)])

\* Series.mean() and Series.std() (ddof = 1): nan for too few values
SeriesMean(values) ==
    IF values = <<>> THEN NaN ELSE SumRange(values, 1, Len(values)) \div Len(values)
SeriesStd(values) ==
    IF Len(values) < 2 THEN NaN
    ELSE IntSqrt(SumRange([i \in DOMAIN values |->
                              (values[i] - SeriesMean(values))
                                 * (values[i] - SeriesMean(values))],
                          1, Len(values)) \div (Len(values) - 1))

\* np.sqrt(252 / N_F) and np.sqrt(N_F) for the four period lengths
SqrtYearOver(N_F) ==
    IF N_F = 1 THEN 158745 ELSE IF N_F = 21 THEN 34641
    ELSE IF N_F = 63 THEN 20000 ELSE 10000
SqrtOf(N_F) ==
    IF N_F = 1 THEN 10000 ELSE IF N_F = 21 THEN 45826
    ELSE IF N_F = 63 THEN 79373 ELSE 158745

\* an optional float argument
NoOverride == [given |-> FALSE, value |-> 0]
Override(value) == [given |-> TRUE, value |-> value]

\* outlook_map, mood_map, confidence_map and block_len_map with their defaults
OutlookShift(outlook) ==
    IF outlook = "pessimistic" THEN -1000 ELSE IF outlook = "optimistic" THEN 1000 ELSE 0
MoodVolatility(market_mood) ==
    IF market_mood = "calm" THEN 1200 ELSE IF market_mood = "turbulent" THEN 2800
    ELSE 1800
ConfidenceWeight(confidence) ==
    IF confidence = "low" THEN 2500 ELSE IF confidence = "high" THEN 7500 ELSE 5000
BlockLength(freq, n_observations) ==
    LET L == IF freq = "daily" THEN 20 ELSE IF freq = "monthly" THEN 6
             ELSE IF freq = "quarterly" THEN 4 ELSE IF freq = "annual" THEN 2 ELSE 6
        capped == IF L < n_observations \div 6 THEN L ELSE n_observations \div 6
    IN IF n_observations < 36 THEN (IF capped > 2 THEN capped ELSE 2) ELSE L

\* simulate_beta_forward on the arguments a up to the call of
\* calibrate_drift_mgf: the fitted parameters, or the exception raised on the way
VariantSetup(a) ==
    LET beta_index == a.beta_index
        horizon_days == a.horizon_days
        outlook == a.outlook
        market_mood == a.market_mood
        confidence == a.confidence
        annual_return_override == a.annual_return_override
        vol_target_override == a.vol_target_override
        series == preprocess_prices(beta_index)
        Refuse(error) == [raised |-> error]
    IN IF series.raised /= "none" THEN Refuse(series.raised)
       ELSE IF series.prices = <<>> THEN Refuse("IndexError")
       ELSE The({ The({
          LET N_F == inferred.N_F
              mu_F == SeriesMean(r_F)
              sigma_F == SeriesStd(r_F)
              scaled == IF sigma_F = NaN THEN NaN
                        ELSE MulRate(sigma_F, SqrtYearOver(N_F))
              sigma_hist_annual == IF FLess(scaled, 1) THEN 100 ELSE scaled
              mu_hist_annual == IF mu_F = NaN THEN NaN
                                ELSE (mu_F * TradingDaysPerYear) \div N_F
              R_view == IF annual_return_override.given
                        THEN annual_return_override.value
                        ELSE FAdd(mu_hist_annual, OutlookShift(outlook))
              sigma_view == IF vol_target_override.given
                            THEN vol_target_override.value
                            ELSE MoodVolatility(market_mood)
              w == ConfidenceWeight(confidence)
              sigma_view_daily == (sigma_view * RateScale) \div SqrtYearOver(1)
              R_hist_arith == FAdd(ExpRate(mu_hist_annual), -RateScale)
          IN [raised |-> "none",
              freq |-> inferred.freq, N_F |-> N_F, n_observations |-> Len(r_F),
              mu_hist_annual |-> mu_hist_annual,
              sigma_hist_annual |-> sigma_hist_annual,
              R_view |-> R_view, sigma_view |-> sigma_view, w |-> w,
              sigma_view_daily |-> sigma_view_daily,
              vol_scale |-> FDivRate(sigma_view, sigma_hist_annual),
              L |-> BlockLength(inferred.freq, Len(r_F)),
              residuals |-> Eager([i \in DOMAIN r_F |-> r_F[i] - mu_F]),
              K |-> (horizon_days + N_F - 1) \div N_F,
              horizon_days |-> horizon_days,
              last_date |-> series.prices[Len(series.prices)].date,
              last_price |-> series.prices[Len(series.prices)].price,
              R_target_blended |-> FAdd(FMulRate(R_hist_arith, RateScale - w),
                                        FMulRate(R_view, w)),
              period_residual_std |-> (sigma_view_daily * RateScale) \div SqrtOf(N_F)] :
          r_F \in { LogReturns(series.prices) } }) :
          inferred \in { infer_frequency([i \in DOMAIN series.prices |->
                                            series.prices[i].date]) } })

\* the sum of f[a], .., f[b] on floats: nan when a term is
FSumRange(f, a, b) ==
    IF \E i \in a..b : f[i] = NaN THEN NaN ELSE SumRange(f, a, b)

\* eps_boot - eps_boot.mean(), then vol_scale * eps_boot
CentredScaled(eps_boot, vol_scale) ==
    Eager([k \in DOMAIN eps_boot |->
             FMulRate(eps_boot[k]
                         - SumRange(eps_boot, 1, Len(eps_boot)) \div Len(eps_boot),
                      vol_scale)])

\* the deviates one call of brownian_bridge_increments takes from the
\* generator: n_steps of them unless it returns before drawing
BridgeDraws(n_steps, target_daily_vol, period_residual_std) ==
    IF n_steps = 1 \/ target_daily_vol <= period_residual_std THEN 0 ELSE n_steps

\* the bridges of periods 1..K, drawn one after the other with the same
\* arguments: [raised, value, state], value the sequence of their increments
Bridges(setup, state) ==
    LET draws == BridgeDraws(setup.N_F, setup.sigma_view_daily,
                             setup.period_residual_std)
    IN The({ The({
               [raised |-> IF \E k \in DOMAIN each : each[k].raised /= "none"
                           THEN "AssertionError" ELSE "none",
                value |-> [k \in DOMAIN each |-> each[k].value],
                state |-> states[setup.K * draws + 1]] :
               each \in { Eager([k \in 1..setup.K |->
                                   brownian_bridge_increments(
                                       setup.N_F, setup.sigma_view_daily,
                                       setup.period_residual_std,
                                       states[(k - 1) * draws + 1])]) } }) :
             states \in { States(state, setup.K * draws) } })

\* eps_star = r_star[k] - N_F * mu_fwd_daily
PeriodResidual(r_star_k, N_F, mu_fwd_daily) ==
    FAdd(r_star_k, FNeg(FTimes(mu_fwd_daily, N_F)))

\* period_daily = mu_fwd_daily + eps_star / N_F + daily_increments, in the
\* unit of the increments: 1e-4 / (BridgeScale * N_F)
PeriodDaily(mu_fwd_daily, eps_star, N_F, daily_increments) ==
    Eager([t \in DOMAIN daily_increments |->
             FAdd(FAdd(FTimes(mu_fwd_daily, BridgeScale * N_F),
                       FTimes(eps_star, BridgeScale)),
                  daily_increments[t])])

\* the daily returns of the periods, one period after the other, cut to
\* horizon_days
DailyReturns(periods, N_F, horizon_days) ==
    Eager([t \in 1..horizon_days |->
             periods[((t - 1) \div N_F) + 1][((t - 1) % N_F) + 1]])

\* one path of either loop for a daily drift (0 in the pilot): [raised,
\* eps_boot, r_star, daily_returns, drift, from, to], from and to the states
\* of the generator before and after the path
SimulatedPath(setup, mu_fwd_daily, state) ==
    LET Refuse(error, to) ==
            [raised |-> error, eps_boot |-> <<>>, r_star |-> <<>>,
             daily_returns |-> <<>>, drift |-> mu_fwd_daily, from |-> state, to |-> to]
    IN The({
        IF boot.raised /= "none" THEN Refuse(boot.raised, boot.state)
        ELSE The({
          IF bridges.raised /= "none" THEN Refuse(bridges.raised, bridges.state)
          ELSE The({ The({
                 [raised |-> "none", eps_boot |-> eps_boot, r_star |-> r_star,
                  daily_returns |->
                      DailyReturns(Eager([k \in 1..setup.K |->
                                      PeriodDaily(mu_fwd_daily,
                                                  PeriodResidual(r_star[k], setup.N_F,
                                                                 mu_fwd_daily),
                                                  setup.N_F, bridges.value[k])]),
                                   setup.N_F, setup.horizon_days),
                  drift |-> mu_fwd_daily, from |-> state, to |-> bridges.state] :
                 r_star \in { Eager([k \in DOMAIN eps_boot |->
                                 FAdd(FTimes(mu_fwd_daily, setup.N_F), eps_boot[k])]) } }) :
                 eps_boot \in { CentredScaled(boot.value, setup.vol_scale) } }) :
          bridges \in { Bridges(setup, boot.state) } }) :
        boot \in { circular_block_bootstrap(setup.residuals, setup.K, setup.L, state) } })

\* a daily return in units of 1e-4
DailyRate(daily_return, N_F) ==
    IF daily_return = NaN \/ IsInf(daily_return) THEN daily_return
    ELSE Sgn(daily_return) * (FAbs(daily_return) \div (BridgeScale * N_F))

\* sum(daily_returns[start_idx:end_idx]) for every complete year of a path
AnnualLogReturns(daily_returns, N_F) ==
    Eager([year \in 1..(Len(daily_returns) \div TradingDaysPerYear) |->
             DailyRate(FSumRange(daily_returns, (year - 1) * TradingDaysPerYear + 1,
                                 year * TradingDaysPerYear), N_F)])

\* np.mean of non-negative floats: nan for none
FMean(values) ==
    IF values = <<>> \/ \E i \in DOMAIN values : values[i] = NaN THEN NaN
    ELSE IF \E i \in DOMAIN values : values[i] = MaxFloat THEN MaxFloat
    ELSE SumRange([i \in DOMAIN values |-> values[i] \div Len(values)], 1, Len(values))

\* n_pilot = n_paths, and the end of the loop over range(n_pilot)
PilotsStarted(process) == TRUE
PilotsComplete(process) == Len(process.pilots) = process.n_paths

\* calibrate_drift_mgf after the pilot loop:
\* mu_d_star = (np.log(1 + R_target) - np.log(np.mean(np.exp(annual)))) / 252
CalibratedDrift(annual_log_returns, R_target) ==
    LET L == LnRate(FMean([i \in DOMAIN annual_log_returns |->
                             ExpRate(annual_log_returns[i])]))
        difference == FAdd(LnRate(FAdd(RateScale, R_target)), FNeg(L))
    IN IF difference = NaN \/ IsInf(difference) THEN difference
       ELSE Sgn(difference) * (FAbs(difference) \div TradingDaysPerYear)

\* prices_path[t + 1] = prices_path[t] * np.exp(daily_returns[t]): the prices
\* after the first, days from + 1 .. from + more, given those before
RECURSIVE PricePath(_, _, _, _, _, _)
PricePath(prices, current_price, daily_returns, N_F, from, more) ==
    IF more = 0 THEN prices
    ELSE IF more = 1
    THEN Append(prices, FMulRate(current_price,
                                 ExpRate(DailyRate(daily_returns[from + 1], N_F))))
    ELSE The({ PricePath(first, first[Len(first)], daily_returns, N_F,
                         from + more \div 2, more - more \div 2) :
               first \in { PricePath(prices, current_price, daily_returns, N_F, from,
                                     more \div 2) } })

\* the call in progress: the setup, the generator, the pilot paths (their
\* annual log returns and the generator's states), the drift once calibrated,
\* the production paths, and the frame and diagnostics once returned
VariantProcess(setup, n_paths, seed) ==
    [phase |-> IF setup.raised = "none" THEN "pilot" ELSE "raised",
     raised |-> setup.raised, setup |-> setup, n_paths |-> n_paths,
     state |-> default_rng(seed), pilots |-> <<>>, calibrated |-> FALSE,
     mu_fwd_daily |-> 0, paths |-> <<>>, dates |-> <<>>]

\* monthly and quarterly observations, a daily run, two observations only,
\* one observation, none, and a price of zero
VariantIndexes ==
    { PriceIndex("monthly", <<BetaPrice(1, 10000), BetaPrice(32, 10400),
                              BetaPrice(60, 10100), BetaPrice(91, 10800)>>),
      PriceIndex("quarterly", <<BetaPrice(1, 10000), BetaPrice(91, 10900),
                                BetaPrice(182, 10600), BetaPrice(274, 11500)>>),
      PriceIndex("daily", <<BetaPrice(10, 10000), BetaPrice(11, 9900),
                            BetaPrice(12, 10100), BetaPrice(13, 10300)>>),
      PriceIndex("monthly", <<BetaPrice(1, 10000), BetaPrice(32, 10400)>>),
      PriceIndex("monthly", <<BetaPrice(1, 10000)>>),
      PriceIndex("monthly", <<>>),
      PriceIndex("monthly", <<BetaPrice(1, 10000), BetaPrice(32, 0)>>) }
\* horizons short of a year, of a year, and of a year and a period; the
\* daily index with the short ones
VariantHorizons(beta_index) ==
    IF beta_index.frequency = "daily" THEN {1, 3}
    ELSE {30, TradingDaysPerYear, TradingDaysPerYear + 21}
VariantPaths == {1, 2}
VariantViews ==
    { <<"base", "normal", "medium", NoOverride, NoOverride>>,
      <<"optimistic", "calm", "high", NoOverride, NoOverride>>,
      <<"base", "normal", "low", Override(800), Override(0)>> }

StartVariant ==
    /\ calc_op = "idle"
    /\ \E beta_index \in VariantIndexes, n_paths \in VariantPaths, seed \in ForwardSeeds,
          view \in VariantViews :
          \E horizon_days \in VariantHorizons(beta_index) :
             /\ calc_op' = "simulate_beta_forward (bootstrap)"
             /\ calc_args' = [beta_index |-> beta_index, horizon_days |-> horizon_days,
                              n_paths |-> n_paths, seed |-> seed, outlook |-> view[1],
                              market_mood |-> view[2], confidence |-> view[3],
                              annual_return_override |-> view[4],
                              vol_target_override |-> view[5]]
             /\ calc_out' = VariantProcess(VariantSetup(calc_args'), n_paths, seed)
    /\ UNCHANGED <<irrVars, simVars>>

\* one iteration of the pilot loop of calibrate_drift_mgf
PilotPath ==
    /\ calc_op = "simulate_beta_forward (bootstrap)"
    /\ calc_out.phase = "pilot" /\ ~PilotsComplete(calc_out)
    /\ \E path \in { SimulatedPath(calc_out.setup, 0, calc_out.state) } :
          calc_out' =
             IF path.raised /= "none"
             THEN [calc_out EXCEPT !.phase = "raised", !.raised = path.raised,
                                   !.state = path.to]
             ELSE [calc_out EXCEPT
                     !.state = path.to,
                     !.pilots = Append(@, [from |-> path.from, to |-> path.to,
                                           annual_log_returns |->
                                              AnnualLogReturns(path.daily_returns,
                                                               calc_out.setup.N_F)])]
    /\ UNCHANGED <<calc_op, calc_args, irrVars, simVars>>

\* the annual log returns of all pilot paths, in order
RECURSIVE PilotReturns(_, _)
PilotReturns(pilots, k) ==
    IF k = 0 THEN <<>> ELSE PilotReturns(pilots, k - 1) \o pilots[k].annual_log_returns

\* calibrate_drift_mgf after its loop, and the return to simulate_beta_forward
Calibrate ==
    /\ calc_op = "simulate_beta_forward (bootstrap)"
    /\ calc_out.phase = "pilot" /\ PilotsComplete(calc_out)
    /\ calc_out' = [calc_out EXCEPT
                      !.phase = "production", !.calibrated = TRUE,
                      !.mu_fwd_daily =
                          CalibratedDrift(PilotReturns(calc_out.pilots,
                                                       Len(calc_out.pilots)),
                                          calc_out.setup.R_target_blended)]
    /\ UNCHANGED <<calc_op, calc_args, irrVars, simVars>>

\* one iteration of the loop over range(n_paths)
ProductionPath ==
    /\ calc_op = "simulate_beta_forward (bootstrap)"
    /\ calc_out.phase = "production" /\ Len(calc_out.paths) < calc_out.n_paths
    /\ \E path \in { SimulatedPath(calc_out.setup, calc_out.mu_fwd_daily,
                                   calc_out.state) } :
          calc_out' =
             IF path.raised /= "none"
             THEN [calc_out EXCEPT !.phase = "raised", !.raised = path.raised,
                                   !.state = path.to]
             ELSE [calc_out EXCEPT
                     !.state = path.to,
                     !.paths = Append(@,
                        [r_star |-> path.r_star, daily_returns |-> path.daily_returns,
                         drift |-> path.drift, from |-> path.from, to |-> path.to,
                         prices |-> PricePath(<< calc_out.setup.last_price >>,
                                              calc_out.setup.last_price,
                                              path.daily_returns, calc_out.setup.N_F, 0,
                                              calc_out.setup.horizon_days)])]
    /\ UNCHANGED <<calc_op, calc_args, irrVars, simVars>>

\* the frame on future_dates and the return; of the diagnostics the fitted
\* parameters are kept (in setup), not the percentiles and validation figures
FinishVariant ==
    /\ calc_op = "simulate_beta_forward (bootstrap)"
    /\ calc_out.phase = "production" /\ Len(calc_out.paths) = calc_out.n_paths
    /\ calc_out' = [calc_out EXCEPT
                      !.phase = "returned",
                      !.dates = [i \in 1..(calc_out.setup.horizon_days + 1) |->
                                    calc_out.setup.last_date + i - 1]]
    /\ UNCHANGED <<calc_op, calc_args, irrVars, simVars>>

\* the caller takes the value or the exception
VariantReturn ==
    /\ IF calc_op = "simulate_beta_forward (bootstrap)"
       THEN calc_out.phase \in {"returned", "raised"} ELSE TRUE
    /\ CalcReturn

\* the daily returns of period k of a path are all there
CompletePeriod(path, N_F, k) == k * N_F <= Len(path.daily_returns)
\* sum(period_daily) == r_star[k], as floats compare: a nan equals nothing
PeriodSumsToCoarse(path, N_F, k) ==
    /\ path.r_star[k] /= NaN
    /\ \A t \in ((k - 1) * N_F + 1)..(k * N_F) : path.daily_returns[t] /= NaN
    /\ SumRange(path.daily_returns, (k - 1) * N_F + 1, k * N_F)
          = BridgeScale * N_F * path.r_star[k]

\* C28: brownian_bridge_increments returns n_steps increments that sum to
\* zero, a single 0 for n_steps = 1 and zeros when the target variance does
\* not exceed the variance already assigned, so its assertion never fails;
\* in every path of simulate_beta_forward the daily log returns of each
\* complete period k sum to r_star[k]
C28_BridgeConserves ==
    /\ calc_op = "brownian_bridge_increments" =>
          /\ calc_out.raised = "none"
          /\ Len(calc_out.value) = calc_args.n_steps
          /\ SumRange(calc_out.value, 1, Len(calc_out.value)) = 0
          /\ calc_args.n_steps = 1 => calc_out.value = <<0>>
          /\ calc_args.target_daily_vol <= calc_args.period_residual_std
                => \A t \in DOMAIN calc_out.value : calc_out.value[t] = 0
    /\ calc_op = "simulate_beta_forward (bootstrap)" =>
          /\ calc_out.raised /= "AssertionError"
          /\ \A i \in DOMAIN calc_out.paths :
                \A k \in DOMAIN calc_out.paths[i].r_star :
                   CompletePeriod(calc_out.paths[i], calc_out.setup.N_F, k)
                      => PeriodSumsToCoarse(calc_out.paths[i], calc_out.setup.N_F, k)

\* the draws of a batch of paths follow one another on the one generator,
\* from the state first
InSuccession(batch, first) ==
    /\ batch /= <<>> => batch[1].from = first
    /\ \A i \in 1..(Len(batch) - 1) : batch[i + 1].from = batch[i].to

\* C21: in simulate_beta_forward no production path is drawn before the
\* drift is calibrated, the drift is calibrated only when all n_pilot =
\* n_paths pilot paths have been drawn, the production paths draw from the
\* generator where the last pilot path left it, and every production path
\* has the calibrated drift
C21_PilotBarrier ==
    calc_op = "simulate_beta_forward (bootstrap)" =>
       /\ ~calc_out.calibrated => calc_out.paths = <<>>
       /\ calc_out.calibrated => Len(calc_out.pilots) = calc_out.n_paths
       /\ InSuccession(calc_out.pilots, default_rng(calc_args.seed))
       /\ InSuccession(calc_out.paths,
                       IF calc_out.pilots = <<>> THEN default_rng(calc_args.seed)
                       ELSE calc_out.pilots[Len(calc_out.pilots)].to)
       /\ \A i \in DOMAIN calc_out.paths :
             calc_out.paths[i].drift = calc_out.mu_fwd_daily

\* a call returned two paths on a drift calibrated from two pilot paths of
\* a whole year, the generator moving with every path
C21_Witness ==
    /\ calc_op = "simulate_beta_forward (bootstrap)"
    /\ calc_out.phase = "returned"
    /\ Len(calc_out.pilots) = 2 /\ Len(calc_out.paths) = 2
    /\ calc_out.mu_fwd_daily \notin {0, NaN}
    /\ \A i \in 1..2 : /\ calc_out.pilots[i].annual_log_returns /= <<>>
                       /\ calc_out.pilots[i].from /= calc_out.pilots[i].to
                       /\ calc_out.paths[i].from /= calc_out.paths[i].to
    /\ calc_out.paths[1].from = calc_out.pilots[2].to

VariantNext ==
    \/ CallBootstrap \/ CallBridge
    \/ StartVariant \/ PilotPath \/ Calibrate \/ ProductionPath \/ FinishVariant
    \/ VariantReturn
SpecVariant == CalcInit /\ [][VariantNext]_vars

(***************************************************************************)
(* app.py: render_run_simulation over a session.  A stored value is the    *)
(* number of the run that produced it, and 0 is None; a run is one click   *)
(* on "Run Simulation", numbered from 1.  calc_out is st.session_state     *)
(* and calc_args the run in progress with its locals.                      *)
(***************************************************************************)
MaxRuns == 3
NoValue == 0

\* initialize_session_state: every result is None
SessionState ==
    [gross_results |-> NoValue, gross_summary |-> NoValue,
     net_results |-> NoValue, net_summary |-> NoValue,
     alpha_results |-> NoValue, alpha_summary |-> NoValue,
     beta_paths |-> NoValue, beta_diagnostics |-> NoValue,
     reconstructed_gross_results |-> NoValue, reconstructed_gross_summary |-> NoValue,
     reconstructed_net_results |-> NoValue, reconstructed_net_summary |-> NoValue,
     beta_recon_diagnostics |-> NoValue, decomp_diagnostics |-> NoValue]

\* the run in progress or last ended: its number, mode, the stage-3 outcome
\* and whether it ran to its end
Run(number, mode) ==
    [number |-> number, mode |-> mode, stage3 |-> "not reached", completed |-> FALSE]

SessionInit ==
    /\ calc_op = "idle" /\ calc_args = Run(0, "none") /\ calc_out = SessionState
    /\ IrrIdle /\ SimIdle

\* stage 3 failed or skipped: the two assignments of None
Stage3Failed(session_state) ==
    [session_state EXCEPT !.reconstructed_gross_results = NoValue,
                          !.reconstructed_gross_summary = NoValue]

\* the button in past-performance mode: both simulations, the results
\* stored and the deconstructed results cleared; an exception of a simulation
\* leaves the session as it was
RunPastPerformance ==
    /\ calc_op = "idle" /\ calc_args.number < MaxRuns
    /\ \E raises \in BOOLEAN :
          LET number == calc_args.number + 1
          IN /\ calc_args' = [Run(number, "past_performance") EXCEPT
                                !.completed = ~raises]
             /\ calc_out' =
                  IF raises THEN calc_out
                  ELSE [SessionState EXCEPT
                          !.gross_results = number, !.gross_summary = number,
                          !.net_results = number, !.net_summary = number]
    /\ UNCHANGED <<calc_op, irrVars, simVars>>

\* the button in deconstructed-performance mode: without a beta index the
\* run returns at once
StartDeconstructed ==
    /\ calc_op = "idle" /\ calc_args.number < MaxRuns
    /\ \E beta_index_given \in BOOLEAN :
          /\ calc_args' = Run(calc_args.number + 1, "deconstructed_performance")
          /\ calc_op' = IF beta_index_given THEN "stage 0" ELSE "idle"
    /\ UNCHANGED <<calc_out, irrVars, simVars>>

\* stage 0: decompose_historical_beta, its diagnostics stored; an exception
\* ends the run
Stage0 ==
    /\ calc_op = "stage 0"
    /\ \E raises \in BOOLEAN :
          IF raises THEN calc_op' = "idle" /\ UNCHANGED calc_out
          ELSE /\ calc_op' = "stage 1"
               /\ calc_out' = [calc_out EXCEPT !.decomp_diagnostics = calc_args.number]
    /\ UNCHANGED <<calc_args, irrVars, simVars>>

\* stage 1: the alpha simulation and its summary, kept in locals; an
\* exception ends the run
Stage1 ==
    /\ calc_op = "stage 1"
    /\ \E raises \in BOOLEAN : calc_op' = IF raises THEN "idle" ELSE "stage 2"
    /\ UNCHANGED <<calc_args, calc_out, irrVars, simVars>>

\* stage 2: simulate_beta_forward in a try block
Stage2 ==
    /\ calc_op = "stage 2"
    /\ \E raises \in BOOLEAN :
          calc_out' = IF raises
                      THEN [calc_out EXCEPT !.beta_paths = NoValue,
                                            !.beta_diagnostics = NoValue]
                      ELSE [calc_out EXCEPT !.beta_paths = calc_args.number,
                                            !.beta_diagnostics = calc_args.number]
    /\ calc_op' = "stage 3"
    /\ UNCHANGED <<calc_args, irrVars, simVars>>

\* stage 3: reconstruct_gross_performance and its summary in a try block,
\* when there are beta paths
Stage3 ==
    /\ calc_op = "stage 3"
    /\ IF calc_out.beta_paths /= NoValue
       THEN \E raises \in BOOLEAN :
               IF raises
               THEN /\ calc_out' = Stage3Failed(calc_out)
                    /\ calc_args' = [calc_args EXCEPT !.stage3 = "failed"]
               ELSE /\ calc_out' =
                         [calc_out EXCEPT
                            !.reconstructed_gross_results = calc_args.number,
                            !.reconstructed_gross_summary = calc_args.number,
                            !.beta_recon_diagnostics = calc_args.number]
                    /\ calc_args' = [calc_args EXCEPT !.stage3 = "produced"]
       ELSE /\ calc_out' = Stage3Failed(calc_out)
            /\ calc_args' = [calc_args EXCEPT !.stage3 = "skipped"]
    /\ calc_op' = "stage 4"
    /\ UNCHANGED <<irrVars, simVars>>

\* stage 4: reconstruct_net_performance and its summary in a try block, when
\* there are gross results
Stage4 ==
    /\ calc_op = "stage 4"
    /\ \E raises \in BOOLEAN :
          calc_out' =
             IF calc_out.reconstructed_gross_results /= NoValue /\ ~raises
             THEN [calc_out EXCEPT !.reconstructed_net_results = calc_args.number,
                                   !.reconstructed_net_summary = calc_args.number]
             ELSE [calc_out EXCEPT !.reconstructed_net_results = NoValue,
                                   !.reconstructed_net_summary = NoValue]
    /\ calc_op' = "store"
    /\ UNCHANGED <<calc_args, irrVars, simVars>>

\* the alpha results stored, the past-performance results cleared
StoreAlpha ==
    /\ calc_op = "store"
    /\ calc_out' = [calc_out EXCEPT
                      !.alpha_results = calc_args.number,
                      !.alpha_summary = calc_args.number,
                      !.gross_results = NoValue, !.gross_summary = NoValue,
                      !.net_results = NoValue, !.net_summary = NoValue]
    /\ calc_args' = [calc_args EXCEPT !.completed = TRUE]
    /\ calc_op' = "idle"
    /\ UNCHANGED <<irrVars, simVars>>

SessionNext ==
    \/ RunPastPerformance \/ StartDeconstructed
    \/ Stage0 \/ Stage1 \/ Stage2 \/ Stage3 \/ Stage4 \/ StoreAlpha
SpecSession == SessionInit /\ [][SessionNext]_vars

\* a deconstructed-performance run has just run to its end
DeconstructedCompleted ==
    /\ calc_op = "idle"
    /\ calc_args.mode = "deconstructed_performance" /\ calc_args.completed

\* C30: after a completed deconstructed-performance run the reconstructed
\* gross results, their summary and the reconstruction diagnostics are all
\* this run's when its stage 3 produced them and all None when it was skipped
\* or failed; the reconstructed net results and summary are None unless the
\* gross results are there; the past-performance results are None
C30_OutputsOfThisRun ==
    DeconstructedCompleted =>
       /\ IF calc_args.stage3 = "produced"
          THEN /\ calc_out.reconstructed_gross_results = calc_args.number
               /\ calc_out.reconstructed_gross_summary = calc_args.number
               /\ calc_out.beta_recon_diagnostics = calc_args.number
          ELSE /\ calc_out.reconstructed_gross_results = NoValue
               /\ calc_out.reconstructed_gross_summary = NoValue
               /\ calc_out.beta_recon_diagnostics = NoValue
       /\ (calc_out.reconstructed_net_results /= NoValue
             \/ calc_out.reconstructed_net_summary /= NoValue)
            => calc_out.reconstructed_gross_results /= NoValue
       /\ calc_out.gross_results = NoValue /\ calc_out.gross_summary = NoValue
       /\ calc_out.net_results = NoValue /\ calc_out.net_summary = NoValue

====
